---- MODULE Spec2Model ----
(***************************************************************************)
(* A model of the go-coverage-analyzer ("beck"): the coverage mapper of    *)
(* pkg/coverage/analyzer.go (AnalyzeProject and what it calls) and the     *)
(* validation pipeline of internal/generator (TestValidator).              *)
(*                                                                         *)
(* A path is the sequence of its "/"-separated segments, so that           *)
(* "m/sub/a.go" is <<"m", "sub", "a.go">>.  A float64 percentage is kept   *)
(* exactly, as a fraction in lowest terms (see Pct).                       *)
(***************************************************************************)
EXTENDS Integers, Sequences, FiniteSets, TLC

VARIABLES
    pc,              \* position of the AnalyzeProject run
    files,           \* the .go files of the project, in filepath.Walk order
    unparseable,     \* the files parser.ParseFile rejects
    profile,         \* profile.Blocks after ParseProfile/ValidateProfile, or NoProfile
    packages,        \* map[string]*models.Package
    matched,         \* per file path: the variant that hit fileBlocks (the verbose "Matched file" line)
    uncovered,       \* result.UncoveredFunctions
    summary,         \* result.Summary
    err,             \* the error AnalyzeProject returns, or Nil
    vpc,             \* position of the TestValidator run
    op,              \* the TestValidator method that ran
    generatedFiles,  \* result.GeneratedFiles with what is on disk at each path
    validationResult,\* the *ValidationResult under construction
    stages,          \* the stages and commands started so far, in order
    execRun,         \* what "go test -v ./..." returned: exit status and output
    ppc,             \* position of the ProfileParser run
    profileText,     \* the lines of the profile file, each a sequence of characters
    parsed,          \* what ParseProfile returned: the profile (or NoProfile) and the error
    validateErr,     \* what ValidateProfile returned
    dpc,             \* position of the DataGenerator's caller
    dataTodo,        \* the functions still to be handed to GenerateTestData
    maxTestCases,    \* opts.MaxTestCases
    rand,            \* dg.rand
    testData,        \* what GenerateTestData returned, call by call
    mpc,             \* position of the MockGenerator's work on one interface
    mockRequest,     \* the interface type asked for, and the file it is looked up in
    mockInterface,   \* what parseInterface returned
    generatedMock,   \* the *GeneratedMock, or NoMock
    gpc,             \* position of a run of Generate
    tgOptions,       \* the run's Options
    tgProject,       \* the analysis result and the disk the run works on
    tgTodo,          \* the file groups generateTests has not reached
    tgRand,          \* the DataGenerator's random source
    tgWrites,        \* the calls that made a directory or wrote a file
    tgOutput,        \* what the run printed about skips and failures
    tgMocks,         \* the mocks GenerateMocks returned
    tgResult,        \* the GenerationResult being filled
    tgReturn,        \* what Generate returned
    ipc,             \* position of one generateIntValue call
    intRequest,      \* the strategy, the type and the random source of the call
    intResult,       \* what generateIntValue returned
    cpc,             \* position of one calculateComplexity call
    funcBody,        \* the function declaration's body
    complexity,      \* what calculateComplexity returned
    rpc,             \* position of one generateTestFileContent call
    renderOptions,   \* the options of the call
    renderFunctions, \* the functions of the source file
    renderRand,      \* the DataGenerator's random source
    renderLoop,      \* testData and testContent of the iterations so far
    rendered         \* the content generateTestFileContent has built

analysisVars == <<pc, files, unparseable, profile, packages, matched, uncovered, summary, err>>

validationVars == <<vpc, op, generatedFiles, validationResult, stages, execRun>>

parserVars == <<ppc, profileText, parsed, validateErr>>

dataVars == <<dpc, dataTodo, maxTestCases, rand, testData>>

mockVars == <<mpc, mockRequest, mockInterface, generatedMock>>

generateVars == <<gpc, tgOptions, tgProject, tgTodo, tgRand, tgWrites, tgOutput, tgMocks,
                  tgResult, tgReturn>>

valueVars == <<ipc, intRequest, intResult>>

complexityVars == <<cpc, funcBody, complexity>>

renderVars == <<rpc, renderOptions, renderFunctions, renderRand, renderLoop, rendered>>

vars == <<analysisVars, validationVars, parserVars, dataVars, mockVars, generateVars,
          valueVars, complexityVars, renderVars>>

-----------------------------------------------------------------------------
(* Bounds and input domains *)

MaxBlocks == 2      \* blocks in a profile
MaxFiles == 2       \* source files in a project
MaxBad == 1         \* source files that fail to parse

Nil == "nil"
\* A nil *models.CoverageProfile; a validated profile has at least one block.
NoProfile == <<>>
NoMatch == <<>>

\* The project's files in the lexical order filepath.Walk visits them.
WalkOrder == << <<"a.go">>, <<"sub", "a.go">>, <<"sub", "b.go">>, <<"x", "sub", "a.go">> >>

\* Paths as the instrumented build reports them: module path, then the
\* path inside the module.
ProfilePaths == << <<"m", "a.go">>, <<"m", "sub", "a.go">>, <<"m", "sub", "b.go">> >>

\* Line spans of profile blocks (start <= end, as ValidateProfile requires).
BlockSpans == << <<3, 5>>, <<6, 8>>, <<8, 10>>, <<10, 12>> >>

\* (NumStmts, Count) of a block: NumStmts > 0 and Count >= 0.
BlockWeights == << <<1, 0>>, <<2, 1>> >>

\* The functions the parser finds in every file: name and line span.
Layout == << [Name |-> "F", StartLine |-> 3, EndLine |-> 8],
             [Name |-> "G", StartLine |-> 10, EndLine |-> 12],
             [Name |-> "H", StartLine |-> 20, EndLine |-> 22] >>

Range(s) == {s[i] : i \in DOMAIN s}

-----------------------------------------------------------------------------
(* Arithmetic helpers *)

RECURSIVE GCD(_, _)
GCD(a, b) == IF b = 0 THEN a ELSE GCD(b, a % b)

\* float64(covered) / float64(total) * 100.0, exactly: <<numerator, denominator>>
\* in lowest terms.  Requires total > 0.
Pct(covered, total) ==
    LET g == GCD(covered * 100, total)
    IN  <<(covered * 100) \div g, total \div g>>

\* The float64 zero value 0.0.
Zero == <<0, 1>>

RECURSIVE SumNumStmts(_)
\* Sum of NumStmts over a sequence of blocks.
SumNumStmts(blocks) ==
    IF blocks = <<>> THEN 0
    ELSE Head(blocks).NumStmts + SumNumStmts(Tail(blocks))

RECURSIVE SumFn(_, _)
\* Sum of val[x] over the finite set S.
SumFn(S, val) ==
    IF S = {} THEN 0
    ELSE LET x == CHOOSE y \in S : TRUE IN val[x] + SumFn(S \ {x}, val)

-----------------------------------------------------------------------------
(* Profile blocks *)

ProfileBlock(p, s, w) ==
    [FileName |-> ProfilePaths[p], StartLine |-> BlockSpans[s][1],
     EndLine |-> BlockSpans[s][2], NumStmts |-> BlockWeights[w][1],
     Count |-> BlockWeights[w][2]]

BlockIds == (DOMAIN ProfilePaths) \X (DOMAIN BlockSpans) \X (DOMAIN BlockWeights)

BlockRank(id) == (id[1] * 100 + id[2]) * 100 + id[3]

\* Profiles of 1..MaxBlocks blocks (ValidateProfile rejects an empty one),
\* listed file by file and top to bottom, as the instrumented run writes them.
Profiles ==
    LET ids == UNION {[1..n -> BlockIds] : n \in 1..MaxBlocks}
        ordered == {s \in ids : \A i \in 1..(Len(s) - 1) : BlockRank(s[i]) <= BlockRank(s[i + 1])}
    IN  {[i \in DOMAIN s |-> ProfileBlock(s[i][1], s[i][2], s[i][3])] : s \in ordered}

\* ConvertToBlocks: models.ProfileBlock -> models.Block
ConvertToBlocks(profileBlocks) ==
    [i \in DOMAIN profileBlocks |->
        [StartLine |-> profileBlocks[i].StartLine,
         EndLine   |-> profileBlocks[i].EndLine,
         NumStmts  |-> profileBlocks[i].NumStmts,
         Count     |-> profileBlocks[i].Count,
         IsCovered |-> profileBlocks[i].Count > 0]]

-----------------------------------------------------------------------------
(* Source analyzer: parseSourceFiles / parseGoFile *)

\* file.Name.Name of a parsed file: by convention the directory's name.
PackageOf(path) == IF Len(path) = 1 THEN "main" ELSE path[Len(path) - 1]

\* extractFunction: coverage fields start at their zero values.
extractFunction(path, decl) ==
    [Name |-> decl.Name, File |-> path, StartLine |-> decl.StartLine,
     EndLine |-> decl.EndLine, Coverage |-> Zero, IsCovered |-> FALSE]

NewFile(path) ==
    [Path |-> path, Package |-> PackageOf(path),
     Functions |-> [i \in DOMAIN Layout |-> extractFunction(path, Layout[i])],
     CoverageBlocks |-> <<>>, Coverage |-> Zero,
     CoveredLines |-> 0, UncoveredLines |-> 0]

NewPackage(name) ==
    [Name |-> name, Files |-> <<>>, Coverage |-> Zero,
     TotalLines |-> 0, CoveredLines |-> 0, UncoveredLines |-> 0,
     TotalFunctions |-> 0, CoveredFunctions |-> 0]

\* parseGoFile: the packages map with the file added, or an error.
parseGoFile(path, bad, pkgs) ==
    IF path \in bad
    THEN [err |-> "failed to parse file", packages |-> pkgs]
    ELSE LET name == PackageOf(path)
             pkgs1 == IF name \in DOMAIN pkgs THEN pkgs ELSE pkgs @@ (name :> NewPackage(name))
             fs == pkgs1[name].Files
             fs1 == IF path \in DOMAIN fs THEN [fs EXCEPT ![path] = NewFile(path)]
                    ELSE fs @@ (path :> NewFile(path))
         IN  [err |-> Nil, packages |-> [pkgs1 EXCEPT ![name].Files = fs1]]

RECURSIVE walk(_, _, _)
\* filepath.Walk with the callback of parseSourceFiles: the first error the
\* callback returns ends the walk and is returned.
walk(todo, bad, pkgs) ==
    IF todo = <<>> THEN [err |-> Nil, packages |-> pkgs]
    ELSE LET r == parseGoFile(Head(todo), bad, pkgs)
         IN  IF r.err # Nil THEN r ELSE walk(Tail(todo), bad, r.packages)

parseSourceFiles(todo, bad) == walk(todo, bad, <<>>)

-----------------------------------------------------------------------------
(* Coverage mapper *)

\* generatePathVariants: the path, its base name if different, then every
\* suffix obtained by dropping 1, 2, ... leading segments.
generatePathVariants(path) ==
    LET n == Len(path)
        filename == <<path[n]>>
        base == IF filename # path THEN <<path, filename>> ELSE <<path>>
        relative == IF n > 1 THEN [i \in 1..(n - 1) |-> SubSeq(path, i + 1, n)] ELSE <<>>
    IN  base \o relative

RECURSIVE appendUnderKeys(_, _, _)
\* for _, key := range keys { fileBlocks[key] = append(fileBlocks[key], block) }
appendUnderKeys(fileBlocks, keys, block) ==
    IF keys = <<>> THEN fileBlocks
    ELSE LET k == Head(keys)
             fb == IF k \in DOMAIN fileBlocks
                   THEN [fileBlocks EXCEPT ![k] = Append(@, block)]
                   ELSE fileBlocks @@ (k :> <<block>>)
         IN  appendUnderKeys(fb, Tail(keys), block)

RECURSIVE buildFileBlocks(_, _)
\* The first loop of applyCoverageData: every block under every variant of
\* its reported path.
buildFileBlocks(fileBlocks, blocks) ==
    IF blocks = <<>> THEN fileBlocks
    ELSE buildFileBlocks(
             appendUnderKeys(fileBlocks, generatePathVariants(Head(blocks).FileName), Head(blocks)),
             Tail(blocks))

RECURSIVE firstHit(_, _)
\* The probe loop: the first variant that is a key of fileBlocks, or NoMatch.
firstHit(variants, fileBlocks) ==
    IF variants = <<>> THEN NoMatch
    ELSE IF Head(variants) \in DOMAIN fileBlocks THEN Head(variants)
    ELSE firstHit(Tail(variants), fileBlocks)

\* calculateFunctionCoverage without the test on the block's end line.
calculateFunctionCoverage_NoEndCheck(function, blocks) ==
    LET Inside(b) == b.StartLine >= function.StartLine
        Hit(b) == Inside(b) /\ b.Count > 0
        totalStmts == SumNumStmts(SelectSeq(blocks, Inside))
        coveredStmts == SumNumStmts(SelectSeq(blocks, Hit))
    IN  IF totalStmts = 0 THEN <<Zero, FALSE>>
        ELSE <<Pct(coveredStmts, totalStmts), coveredStmts > 0>>

\* calculateFunctionCoverage: <<coverage, isCovered>>
calculateFunctionCoverage(function, blocks) ==
    LET Inside(b) == b.StartLine >= function.StartLine /\ b.EndLine <= function.EndLine
        Hit(b) == Inside(b) /\ b.Count > 0
        totalStmts == SumNumStmts(SelectSeq(blocks, Inside))
        coveredStmts == SumNumStmts(SelectSeq(blocks, Hit))
    IN  IF totalStmts = 0 THEN <<Zero, FALSE>>
        ELSE <<Pct(coveredStmts, totalStmts), coveredStmts > 0>>

\* calculateFileCoverage, on a file whose CoverageBlocks and functions are set.
calculateFileCoverage(file) ==
    LET Covered(b) == b.IsCovered
        totalStmts == SumNumStmts(file.CoverageBlocks)
        coveredStmts == SumNumStmts(SelectSeq(file.CoverageBlocks, Covered))
    IN  [file EXCEPT !.Coverage = IF totalStmts > 0 THEN Pct(coveredStmts, totalStmts) ELSE @,
                     !.CoveredLines = coveredStmts,
                     !.UncoveredLines = totalStmts - coveredStmts]

\* The body of the per-file loop of applyCoverageData.
applyToFile(file, fileBlocks) ==
    LET variant == firstHit(generatePathVariants(file.Path), fileBlocks)
        blocks == IF variant = NoMatch THEN <<>> ELSE fileBlocks[variant]
    IN  IF Len(blocks) = 0 THEN file
        ELSE calculateFileCoverage(
                 [file EXCEPT
                     !.CoverageBlocks = ConvertToBlocks(blocks),
                     !.Functions = [i \in DOMAIN file.Functions |->
                         LET c == calculateFunctionCoverage(file.Functions[i], blocks)
                         IN  [file.Functions[i] EXCEPT !.Coverage = c[1], !.IsCovered = c[2]]]])

CoveredFunctions(file) == Cardinality({i \in DOMAIN file.Functions : file.Functions[i].IsCovered})

\* calculatePackageCoverage
calculatePackageCoverage(pkg) ==
    LET Total(p) == pkg.Files[p].CoveredLines + pkg.Files[p].UncoveredLines
        Cov(p) == pkg.Files[p].CoveredLines
        NumF(p) == Len(pkg.Files[p].Functions)
        CovF(p) == CoveredFunctions(pkg.Files[p])
        totalStmts == SumFn(DOMAIN pkg.Files, [x \in DOMAIN pkg.Files |-> Total(x)])
        coveredStmts == SumFn(DOMAIN pkg.Files, [x \in DOMAIN pkg.Files |-> Cov(x)])
    IN  [pkg EXCEPT !.Coverage = IF totalStmts > 0 THEN Pct(coveredStmts, totalStmts) ELSE @,
                    !.TotalLines = totalStmts,
                    !.CoveredLines = coveredStmts,
                    !.UncoveredLines = totalStmts - coveredStmts,
                    !.TotalFunctions = SumFn(DOMAIN pkg.Files, [x \in DOMAIN pkg.Files |-> NumF(x)]),
                    !.CoveredFunctions = SumFn(DOMAIN pkg.Files, [x \in DOMAIN pkg.Files |-> CovF(x)])]

\* applyCoverageData
applyCoverageData(pkgs, blocks) ==
    LET fileBlocks == buildFileBlocks(<<>>, blocks)
    IN  [name \in DOMAIN pkgs |->
            calculatePackageCoverage(
                [pkgs[name] EXCEPT !.Files =
                    [p \in DOMAIN pkgs[name].Files |-> applyToFile(pkgs[name].Files[p], fileBlocks)]])]

\* The variant each file was matched through.
matchedVariants(pkgs, blocks) ==
    LET fileBlocks == buildFileBlocks(<<>>, blocks)
        paths == UNION {DOMAIN pkgs[name].Files : name \in DOMAIN pkgs}
    IN  [p \in paths |-> firstHit(generatePathVariants(p), fileBlocks)]

\* All files of the packages map.
AllFiles(pkgs) ==
    UNION {{pkgs[name].Files[p] : p \in DOMAIN pkgs[name].Files} : name \in DOMAIN pkgs}

\* buildAnalysisResult: the testable functions that are not covered (every
\* function of Layout is exported, so testable).
uncoveredFunctions(pkgs) ==
    UNION {{<<f.Path, f.Functions[i].Name>> :
               i \in {j \in DOMAIN f.Functions : ~f.Functions[j].IsCovered}} :
           f \in AllFiles(pkgs)}

\* calculateSummaryStatistics (statement and function totals)
calculateSummaryStatistics(pkgs) ==
    LET fs == AllFiles(pkgs)
        Total(f) == f.CoveredLines + f.UncoveredLines
        Cov(f) == f.CoveredLines
        NumF(f) == Len(f.Functions)
        totalStmts == SumFn(fs, [x \in fs |-> Total(x)])
        coveredStmts == SumFn(fs, [x \in fs |-> Cov(x)])
        totalFunctions == SumFn(fs, [x \in fs |-> NumF(x)])
        coveredFunctions == SumFn(fs, [x \in fs |-> CoveredFunctions(x)])
    IN  [TotalPackages |-> Cardinality(DOMAIN pkgs),
         TotalFiles |-> Cardinality(fs),
         TotalLines |-> totalStmts,
         CoveredLines |-> coveredStmts,
         UncoveredLines |-> totalStmts - coveredStmts,
         OverallCoverage |-> IF totalStmts > 0 THEN Pct(coveredStmts, totalStmts) ELSE Zero,
         TotalFunctions |-> totalFunctions,
         TestedFunctions |-> coveredFunctions,
         UntestedFunctions |-> totalFunctions - coveredFunctions]

EmptySummary ==
    [TotalPackages |-> 0, TotalFiles |-> 0, TotalLines |-> 0, CoveredLines |-> 0,
     UncoveredLines |-> 0, OverallCoverage |-> Zero, TotalFunctions |-> 0,
     TestedFunctions |-> 0, UntestedFunctions |-> 0]

-----------------------------------------------------------------------------
(* AnalyzeProject *)

\* Subsequences of WalkOrder with 1..MaxFiles files.
FileLists ==
    LET pick == {S \in SUBSET (DOMAIN WalkOrder) : Cardinality(S) \in 1..MaxFiles}
        Nth(S, k) == CHOOSE i \in S : Cardinality({j \in S : j < i}) = k - 1
    IN  {[k \in 1..Cardinality(S) |-> WalkOrder[Nth(S, k)]] : S \in pick}

AnalysisInit ==
    /\ pc = "parse"
    /\ files \in FileLists
    /\ unparseable \in {B \in SUBSET Range(files) : Cardinality(B) <= MaxBad}
    /\ profile \in Profiles \cup {NoProfile}
    /\ packages = <<>>
    /\ matched = <<>>
    /\ uncovered = {}
    /\ summary = EmptySummary
    /\ err = Nil

\* Step 4 of AnalyzeProject.
ParseSourceFiles ==
    /\ pc = "parse"
    /\ LET r == parseSourceFiles(files, unparseable)
       IN  IF r.err # Nil
           THEN /\ pc' = "failed"
                /\ err' = "failed to parse source files"
                /\ UNCHANGED packages
           ELSE /\ pc' = "build"
                /\ packages' = r.packages
                /\ UNCHANGED err
    /\ UNCHANGED <<files, unparseable, profile, matched, uncovered, summary>>
    /\ UNCHANGED <<validationVars, parserVars, dataVars, mockVars, generateVars,
                 valueVars, complexityVars, renderVars>>

\* Step 5 of AnalyzeProject: buildAnalysisResult.
BuildAnalysisResult ==
    /\ pc = "build"
    /\ packages' = IF profile # NoProfile THEN applyCoverageData(packages, profile) ELSE packages
    /\ matched' = matchedVariants(packages, profile)
    /\ uncovered' = uncoveredFunctions(packages')
    /\ pc' = "summary"
    /\ UNCHANGED <<files, unparseable, profile, summary, err>>
    /\ UNCHANGED <<validationVars, parserVars, dataVars, mockVars, generateVars,
                 valueVars, complexityVars, renderVars>>

\* Step 6 of AnalyzeProject: calculateSummaryStatistics, then return.
CalculateSummaryStatistics ==
    /\ pc = "summary"
    /\ summary' = calculateSummaryStatistics(packages)
    /\ pc' = "done"
    /\ UNCHANGED <<files, unparseable, profile, packages, matched, uncovered, err>>
    /\ UNCHANGED <<validationVars, parserVars, dataVars, mockVars, generateVars,
                 valueVars, complexityVars, renderVars>>

-----------------------------------------------------------------------------
(* Validation pipeline: inputs *)

MaxGenFiles == 2      \* generated files of a run
MaxOutputLines == 2   \* lines "go test -v" prints

\* A statement of a test body, as ast.Inspect sees it: a call through a plain
\* identifier, a call through a selector x.name, or a statement with no call.
Call(fun, x, name) == [fun |-> fun, x |-> x, name |-> name]
NoCall == Call("none", "", "")

FuncDecl(name, body) == [Name |-> name, Body |-> body]

\* strings.Contains / strings.HasPrefix over the identifiers that occur.
Contains(name, sub) ==
    CASE sub = "Error" -> name \in {"Errorf", "Error", "assertNoError"}
      [] sub = "Fail"  -> name \in {"Fail", "FailNow"}
      [] sub = "Fatal" -> name \in {"Fatal", "Fatalf"}
      [] sub = "Table" -> name \in {"TestTableAdd", "TestTableSub"}
      [] OTHER -> FALSE

HasPrefixTest(name) == name \in {"TestEmpty", "TestErrorf", "TestHelper", "TestPlain",
                                 "TestTableAdd", "TestTableSub"}

\* What can be on disk at a generated path.
DiskContents ==
    { [disk |-> "unreadable", funcs |-> <<>>],
      [disk |-> "syntax error", funcs |-> <<>>],
      [disk |-> "ok", funcs |-> << FuncDecl("TestEmpty", <<>>) >>],
      [disk |-> "ok", funcs |-> << FuncDecl("TestErrorf", <<Call("selector", "t", "Errorf")>>) >>],
      [disk |-> "ok", funcs |-> << FuncDecl("TestHelper", <<NoCall, Call("ident", "", "assertNoError")>>),
                                  FuncDecl("TestPlain", <<Call("selector", "fmt", "Println")>>) >>],
      [disk |-> "ok", funcs |-> << FuncDecl("TestTableAdd", <<Call("selector", "t", "Run"),
                                                             Call("selector", "assert", "Equal")>>),
                                  FuncDecl("TestTableSub", <<Call("ident", "", "Fatal")>>),
                                  FuncDecl("helper", <<>>) >>] }

\* GeneratedFile i of a run lives at path i.
GeneratedFileLists ==
    UNION {[1..n -> DiskContents] : n \in 0..MaxGenFiles}

\* Lines of "go test -v" output.
PassLine == "--- PASS: TestA (0.00s)"
FailLine == "--- FAIL: TestB (0.00s)"
OutputLines == {PassLine, FailLine, "ok  pkg 0.1s", "FAIL", "PASS coverage: 75.0% of statements"}

Outputs == UNION {[1..n -> OutputLines] : n \in 0..MaxOutputLines}

ContainsPass(line) == line = PassLine
ContainsFail(line) == line = FailLine
IsSummaryLine(line) == line \in {"FAIL", "PASS coverage: 75.0% of statements"}
ContainsCoverage(line) == line = "PASS coverage: 75.0% of statements"

\* A diagnostic: the format string's tag and its arguments.
Msg(tag, name, n) == <<tag, name, n>>

\* &ValidationResult{Valid: true, ...}
NewValidationResult ==
    [Valid |-> TRUE, TestsRun |-> 0, TestsPassed |-> 0, TestsFailed |-> 0,
     CoverageImproved |-> 0,
     SyntaxErrors |-> <<>>, CompileErrors |-> <<>>, RuntimeErrors |-> <<>>,
     Warnings |-> <<>>]

-----------------------------------------------------------------------------
(* Validation pipeline: the stages *)

RECURSIVE validateSyntaxFrom(_, _, _, _)
\* The loop of validateSyntax from file i on: <<result, allValid>>.
validateSyntaxFrom(gen, i, result, allValid) ==
    IF i > Len(gen) THEN <<result, allValid>>
    ELSE IF gen[i].disk = "unreadable"
         THEN validateSyntaxFrom(gen, i + 1,
                  [result EXCEPT !.SyntaxErrors = Append(@, Msg("Failed to read", "", i))], FALSE)
    ELSE IF gen[i].disk = "syntax error"
         THEN validateSyntaxFrom(gen, i + 1,
                  [result EXCEPT !.SyntaxErrors = Append(@, Msg("Syntax error in", "", i))], FALSE)
    ELSE validateSyntaxFrom(gen, i + 1, result, allValid)

\* validateSyntax that records a file it cannot read but still reports success
\* unless some file has a syntax error.
validateSyntax_UnreadableOk(gen, result) ==
    <<validateSyntaxFrom(gen, 1, result, TRUE)[1],
      \A i \in DOMAIN gen : gen[i].disk # "syntax error">>

\* validateSyntax: <<result, allValid>>
validateSyntax(gen, result) == validateSyntaxFrom(gen, 1, result, TRUE)

\* extractCoverageInfo on a line that contains "coverage:".
extractCoverageInfo(line, result) == [result EXCEPT !.CoverageImproved = 75]

RECURSIVE parseLines(_, _)
parseLines(lines, result) ==
    IF lines = <<>> THEN result
    ELSE LET line == Head(lines)
             r1 == IF ContainsPass(line) THEN [result EXCEPT !.TestsPassed = @ + 1]
                   ELSE IF ContainsFail(line) THEN [result EXCEPT !.TestsFailed = @ + 1]
                   ELSE result
             r2 == IF IsSummaryLine(line) /\ ContainsCoverage(line)
                   THEN extractCoverageInfo(line, r1) ELSE r1
         IN  parseLines(Tail(lines), r2)

\* parseTestResults
parseTestResults(output, result) ==
    LET r == parseLines(output, result)
    IN  [r EXCEPT !.TestsRun = r.TestsPassed + r.TestsFailed]

\* validateExecution that looks at the exit status only.
validateExecution_ExitStatusOnly(run, result) ==
    LET r == parseTestResults(run.output, result)
    IN  IF run.err
        THEN <<[r EXCEPT !.RuntimeErrors = Append(@, Msg("Test execution failed", "", 0))], FALSE>>
        ELSE <<r, TRUE>>

\* validateExecution, given what the test run returned: <<result, ok>>
validateExecution(run, result) ==
    LET r == parseTestResults(run.output, result)
    IN  IF run.err
        THEN <<[r EXCEPT !.RuntimeErrors = Append(@, Msg("Test execution failed", "", 0))], FALSE>>
        ELSE IF r.TestsFailed > 0
        THEN <<[r EXCEPT !.RuntimeErrors =
                    Append(@, Msg("tests failed during execution", "", r.TestsFailed))], FALSE>>
        ELSE <<r, TRUE>>

\* checkTestFunction
checkTestFunction(funcDecl, path, result) ==
    IF Len(funcDecl.Body) = 0
    THEN [result EXCEPT !.Warnings = Append(@, Msg("Empty test function", funcDecl.Name, path))]
    ELSE LET calls == Range(funcDecl.Body)
             hasAssertions == \E c \in calls :
                 /\ c.fun = "ident"
                 /\ (Contains(c.name, "Error") \/ Contains(c.name, "Fail") \/ Contains(c.name, "Fatal"))
             hasTestCases == \E c \in calls : c.fun = "selector" /\ c.name = "Run"
             r1 == IF ~hasAssertions
                   THEN [result EXCEPT !.Warnings =
                            Append(@, Msg("lacks proper assertions", funcDecl.Name, path))]
                   ELSE result
         IN  IF ~hasTestCases /\ Contains(funcDecl.Name, "Table")
             THEN [r1 EXCEPT !.Warnings = Append(@, Msg("lacks t.Run calls", funcDecl.Name, path))]
             ELSE r1

RECURSIVE checkFuncs(_, _, _)
checkFuncs(funcs, path, result) ==
    IF funcs = <<>> THEN result
    ELSE checkFuncs(Tail(funcs), path,
             IF HasPrefixTest(Head(funcs).Name)
             THEN checkTestFunction(Head(funcs), path, result) ELSE result)

\* checkTestQuality: a file that cannot be read or parsed is passed over.
checkTestQuality(file, path, result) ==
    IF file.disk # "ok" THEN result ELSE checkFuncs(file.funcs, path, result)

RECURSIVE runQualityChecksFrom(_, _, _)
runQualityChecksFrom(gen, i, result) ==
    IF i > Len(gen) THEN result
    ELSE runQualityChecksFrom(gen, i + 1, checkTestQuality(gen[i], i, result))

\* runQualityChecks
runQualityChecks(gen, result) == runQualityChecksFrom(gen, 1, result)

-----------------------------------------------------------------------------
(* TestValidator.ValidateTests, stage by stage *)

NotRun == [ran |-> FALSE, err |-> FALSE, output |-> <<>>]

ValidationInit ==
    /\ vpc = "start"
    /\ op = "none"
    /\ generatedFiles \in GeneratedFileLists
    /\ validationResult = NewValidationResult
    /\ stages = <<>>
    /\ execRun = NotRun

\* Step 1: validateSyntax; a failure returns.
ValidateSyntax ==
    /\ vpc = "start"
    /\ op' = "ValidateTests"
    /\ stages' = Append(stages, "syntax")
    /\ LET r == validateSyntax(generatedFiles, validationResult)
       IN  IF ~r[2]
           THEN /\ validationResult' = [r[1] EXCEPT !.Valid = FALSE]
                /\ vpc' = "done"
           ELSE /\ validationResult' = r[1]
                /\ vpc' = "build"
    /\ UNCHANGED <<generatedFiles, execRun>>
    /\ UNCHANGED <<analysisVars, parserVars, dataVars, mockVars, generateVars,
                 valueVars, complexityVars, renderVars>>

\* GoBuild that records the failure and goes on to the test build.
GoBuild_NoGate ==
    /\ vpc = "build"
    /\ stages' = Append(stages, "build")
    /\ \E failed \in BOOLEAN :
          IF failed
          THEN /\ validationResult' =
                      [validationResult EXCEPT !.CompileErrors = Append(@, Msg("Compilation failed", "", 0)),
                                               !.Valid = FALSE]
               /\ vpc' = "test build"
          ELSE /\ vpc' = "test build"
               /\ UNCHANGED validationResult
    /\ UNCHANGED <<op, generatedFiles, execRun>>
    /\ UNCHANGED <<analysisVars, parserVars, dataVars, mockVars, generateVars,
                 valueVars, complexityVars, renderVars>>

\* Step 2, first command of validateCompilation: go build ./...
GoBuild ==
    /\ vpc = "build"
    /\ stages' = Append(stages, "build")
    /\ \E failed \in BOOLEAN :
          IF failed
          THEN /\ validationResult' =
                      [validationResult EXCEPT !.CompileErrors = Append(@, Msg("Compilation failed", "", 0)),
                                               !.Valid = FALSE]
               /\ vpc' = "done"
          ELSE /\ vpc' = "test build"
               /\ UNCHANGED validationResult
    /\ UNCHANGED <<op, generatedFiles, execRun>>
    /\ UNCHANGED <<analysisVars, parserVars, dataVars, mockVars, generateVars,
                 valueVars, complexityVars, renderVars>>

\* Step 2, second command of validateCompilation: go test -c ./...
GoTestCompile ==
    /\ vpc = "test build"
    /\ stages' = Append(stages, "test build")
    /\ \E failed \in BOOLEAN :
          IF failed
          THEN /\ validationResult' =
                      [validationResult EXCEPT !.CompileErrors = Append(@, Msg("Test compilation failed", "", 0)),
                                               !.Valid = FALSE]
               /\ vpc' = "done"
          ELSE /\ vpc' = "exec"
               /\ UNCHANGED validationResult
    /\ UNCHANGED <<op, generatedFiles, execRun>>
    /\ UNCHANGED <<analysisVars, parserVars, dataVars, mockVars, generateVars,
                 valueVars, complexityVars, renderVars>>

\* Step 3: validateExecution; a failure marks the result and goes on.
ValidateExecution ==
    /\ vpc = "exec"
    /\ stages' = Append(stages, "exec")
    /\ \E e \in BOOLEAN, out \in Outputs :
          LET run == [ran |-> TRUE, err |-> e, output |-> out]
              r == validateExecution(run, validationResult)
          IN  /\ execRun' = run
              /\ validationResult' = IF ~r[2] THEN [r[1] EXCEPT !.Valid = FALSE] ELSE r[1]
    /\ vpc' = "quality"
    /\ UNCHANGED <<op, generatedFiles>>
    /\ UNCHANGED <<analysisVars, parserVars, dataVars, mockVars, generateVars,
                 valueVars, complexityVars, renderVars>>

\* Step 4: runQualityChecks, then return.
RunQualityChecks ==
    /\ vpc = "quality"
    /\ stages' = Append(stages, "quality")
    /\ validationResult' = runQualityChecks(generatedFiles, validationResult)
    /\ vpc' = "done"
    /\ UNCHANGED <<op, generatedFiles, execRun>>
    /\ UNCHANGED <<analysisVars, parserVars, dataVars, mockVars, generateVars,
                 valueVars, complexityVars, renderVars>>

\* TestValidator.ValidateIndividualTest on the file at path i: syntax, then
\* quality, whatever the syntax stage found.
ValidateIndividualTest ==
    /\ vpc = "start"
    /\ \E i \in DOMAIN generatedFiles :
          LET genResult == <<generatedFiles[i]>>
              r == validateSyntax(genResult, NewValidationResult)
              r1 == IF ~r[2] THEN [r[1] EXCEPT !.Valid = FALSE] ELSE r[1]
          IN  validationResult' = runQualityChecks(genResult, r1)
    /\ op' = "ValidateIndividualTest"
    /\ stages' = <<"syntax", "quality">>
    /\ vpc' = "done"
    /\ UNCHANGED <<generatedFiles, execRun>>
    /\ UNCHANGED <<analysisVars, parserVars, dataVars, mockVars, generateVars,
                 valueVars, complexityVars, renderVars>>

-----------------------------------------------------------------------------
(* Coverage profile parser: strings *)

\* A string is the sequence of its characters.  The profile's alphabet has
\* the space as its only white space.
MaxLines == 3       \* lines in a profile file

Space == " "
Digits == <<"0", "1", "2", "3", "4", "5", "6", "7", "8", "9">>

\* strings.HasPrefix
HasPrefix(s, prefix) ==
    Len(s) >= Len(prefix) /\ SubSeq(s, 1, Len(prefix)) = prefix

\* strings.TrimPrefix
TrimPrefix(s, prefix) ==
    IF HasPrefix(s, prefix) THEN SubSeq(s, Len(prefix) + 1, Len(s)) ELSE s

\* strings.Index and strings.LastIndex for a one-character separator,
\* 1-based; 0 stands for Go's -1.
Index(s, c) ==
    IF \E i \in 1..Len(s) : s[i] = c
    THEN CHOOSE i \in 1..Len(s) : s[i] = c /\ \A j \in 1..(i - 1) : s[j] # c
    ELSE 0

LastIndex(s, c) ==
    IF \E i \in 1..Len(s) : s[i] = c
    THEN CHOOSE i \in 1..Len(s) : s[i] = c /\ \A j \in (i + 1)..Len(s) : s[j] # c
    ELSE 0

\* strings.TrimSpace
RECURSIVE TrimSpace(_)
TrimSpace(s) ==
    IF s = <<>> THEN s
    ELSE IF Head(s) = Space THEN TrimSpace(Tail(s))
    ELSE IF s[Len(s)] = Space THEN TrimSpace(SubSeq(s, 1, Len(s) - 1))
    ELSE s

\* strings.Fields: the maximal runs of non-space characters.
RECURSIVE Fields(_)
Fields(s) ==
    LET t == TrimSpace(s)
        cut == Index(t, Space)
    IN  IF t = <<>> THEN <<>>
        ELSE IF cut = 0 THEN <<t>>
        ELSE <<SubSeq(t, 1, cut - 1)>> \o Fields(SubSeq(t, cut + 1, Len(t)))

DigitValue(c) == (CHOOSE i \in 1..10 : Digits[i] = c) - 1

IsDigit(c) == \E i \in 1..10 : Digits[i] = c

RECURSIVE ParseUint(_)
ParseUint(s) ==
    IF s = <<>> THEN 0 ELSE 10 * ParseUint(SubSeq(s, 1, Len(s) - 1)) + DigitValue(s[Len(s)])

\* strconv.Atoi and strconv.ParseInt(s, 10, 64): an optional sign, then one
\* or more decimal digits.  The numbers of the model are far from the range
\* limits.
Atoi(s) ==
    LET signed == s # <<>> /\ Head(s) \in {"+", "-"}
        digits == IF signed THEN Tail(s) ELSE s
    IN  IF digits = <<>> \/ \E i \in 1..Len(digits) : ~IsDigit(digits[i])
        THEN [ok |-> FALSE, value |-> 0]
        ELSE [ok |-> TRUE,
              value |-> IF signed /\ Head(s) = "-" THEN 0 - ParseUint(digits) ELSE ParseUint(digits)]

(* Coverage profile parser: ParseProfile and ValidateProfile *)

ModePrefix == <<"m", "o", "d", "e", ":", " ">>

\* parsePosition without the check of the column.
parsePosition_NoColumnCheck(pos) ==
    LET dotIndex == Index(pos, ".")
        line == Atoi(SubSeq(pos, 1, dotIndex - 1))
    IN  IF dotIndex = 0 THEN [line |-> 0, col |-> 0, err |-> "invalid position format"]
        ELSE IF ~line.ok THEN [line |-> 0, col |-> 0, err |-> "invalid line number"]
        ELSE [line |-> line.value, col |-> 0, err |-> Nil]

\* parsePosition: "line.column"
parsePosition(pos) ==
    LET dotIndex == Index(pos, ".")
        line == Atoi(SubSeq(pos, 1, dotIndex - 1))
        col == Atoi(SubSeq(pos, dotIndex + 1, Len(pos)))
    IN  IF dotIndex = 0 THEN [line |-> 0, col |-> 0, err |-> "invalid position format"]
        ELSE IF ~line.ok THEN [line |-> 0, col |-> 0, err |-> "invalid line number"]
        ELSE IF ~col.ok THEN [line |-> 0, col |-> 0, err |-> "invalid column number"]
        ELSE [line |-> line.value, col |-> col.value, err |-> Nil]

NoBlock == <<>>

\* parseProfileLine: "filename:startLine.startCol,endLine.endCol numStmts count".
\* The result is the block (as a one-element sequence; NoBlock for nil) and
\* the error.
parseProfileLine(line) ==
    LET parts == Fields(line)
        filePos == parts[1]
        colonIndex == LastIndex(filePos, ":")
        fileName == SubSeq(filePos, 1, colonIndex - 1)
        positions == SubSeq(filePos, colonIndex + 1, Len(filePos))
        commaIndex == Index(positions, ",")
        start == parsePosition(SubSeq(positions, 1, commaIndex - 1))
        end == parsePosition(SubSeq(positions, commaIndex + 1, Len(positions)))
        numStmts == Atoi(parts[2])
        count == Atoi(parts[3])
        fail(msg) == [block |-> NoBlock, err |-> msg]
    IN  IF Len(parts) # 3 THEN fail("invalid profile line format")
        ELSE IF colonIndex = 0 THEN fail("invalid file:position format")
        ELSE IF commaIndex = 0 THEN fail("invalid position format")
        ELSE IF start.err # Nil THEN fail("invalid start position")
        ELSE IF end.err # Nil THEN fail("invalid end position")
        ELSE IF ~numStmts.ok THEN fail("invalid statement count")
        ELSE IF ~count.ok THEN fail("invalid execution count")
        ELSE [block |-> << [FileName |-> fileName,
                            StartLine |-> start.line, StartCol |-> start.col,
                            EndLine |-> end.line, EndCol |-> end.col,
                            NumStmts |-> numStmts.value, Count |-> count.value] >>,
              err |-> Nil]

\* ProfileParser.calculateFileCoverage
calculateFileProfileCoverage(fileProfile) ==
    LET Hit(b) == b.Count > 0
        covered == SelectSeq(fileProfile.Blocks, Hit)
        totalStmts == SumNumStmts(fileProfile.Blocks)
        coveredStmts == SumNumStmts(covered)
    IN  [fileProfile EXCEPT !.TotalStmts = totalStmts,
                            !.CoveredStmts = coveredStmts,
                            !.Coverage = IF totalStmts > 0 THEN Pct(coveredStmts, totalStmts) ELSE Zero]

\* profile.Blocks and profile.Files after one more parsed block.
appendBlock(prof, block) ==
    LET known == block.FileName \in DOMAIN prof.Files
        fresh == [FileName |-> block.FileName, Blocks |-> <<>>,
                  Coverage |-> Zero, TotalStmts |-> 0, CoveredStmts |-> 0]
        entry == IF known THEN prof.Files[block.FileName] ELSE fresh
    IN  [prof EXCEPT !.Blocks = Append(@, block),
                     !.Files = (block.FileName :> [entry EXCEPT !.Blocks = Append(@, block)]) @@ @]

ParseResult(prof, msg, lineNum) == [profile |-> prof, err |-> msg, line |-> lineNum]

\* The scanner loop of ParseProfile, from line lineNum + 1 on.
RECURSIVE scanLines(_, _, _)
scanLines(lines, lineNum, prof) ==
    IF lineNum = Len(lines)
    THEN ParseResult(<< [prof EXCEPT !.Files = [f \in DOMAIN @ |-> calculateFileProfileCoverage(@[f])]] >>,
                     Nil, 0)
    ELSE LET n == lineNum + 1
             line == TrimSpace(lines[n])
             res == parseProfileLine(line)
         IN  IF n = 1 /\ HasPrefix(line, ModePrefix)
             THEN scanLines(lines, n, [prof EXCEPT !.Mode = TrimPrefix(line, ModePrefix)])
             ELSE IF line = <<>> \/ HasPrefix(line, <<"#">>)
             THEN scanLines(lines, n, prof)
             ELSE IF res.err # Nil
             THEN ParseResult(NoProfile, "failed to parse line", n)
             ELSE scanLines(lines, n, appendBlock(prof, res.block[1]))

\* ParseProfile: the profile (a one-element sequence; NoProfile for nil), the
\* error and the line number the error message carries.
ParseProfile(file) ==
    IF ~file.readable
    THEN ParseResult(NoProfile, "failed to open profile file", 0)
    ELSE scanLines(file.lines, 0, [Mode |-> <<>>, Blocks |-> <<>>, Files |-> <<>>])

validModes == { <<"s", "e", "t">>, <<"c", "o", "u", "n", "t">>, <<"a", "t", "o", "m", "i", "c">> }

\* validateBlock without the comparison of the columns.
validateBlock_NoColumnCheck(block) ==
    IF block.FileName = <<>> THEN "block filename is empty"
    ELSE IF block.StartLine <= 0 \/ block.EndLine <= 0 THEN "invalid line numbers"
    ELSE IF block.StartLine > block.EndLine THEN "start line is greater than end line"
    ELSE IF block.NumStmts <= 0 THEN "invalid statement count"
    ELSE IF block.Count < 0 THEN "invalid execution count"
    ELSE Nil

\* validateBlock
validateBlock(block) ==
    IF block.FileName = <<>> THEN "block filename is empty"
    ELSE IF block.StartLine <= 0 \/ block.EndLine <= 0 THEN "invalid line numbers"
    ELSE IF block.StartLine > block.EndLine THEN "start line is greater than end line"
    ELSE IF block.StartLine = block.EndLine /\ block.StartCol > block.EndCol
         THEN "start column is greater than end column on same line"
    ELSE IF block.NumStmts <= 0 THEN "invalid statement count"
    ELSE IF block.Count < 0 THEN "invalid execution count"
    ELSE Nil

NoValidateError == [msg |-> Nil, index |-> -1]

\* ValidateProfile: the error message and, for an invalid block, its index.
ValidateProfile(prof) ==
    LET p == prof[1]
        bad == {i \in 1..Len(p.Blocks) : validateBlock(p.Blocks[i]) # Nil}
        first == CHOOSE i \in bad : \A j \in bad : i <= j
    IN  IF prof = NoProfile THEN [msg |-> "profile is nil", index |-> -1]
        ELSE IF p.Mode = <<>> THEN [msg |-> "profile mode is empty", index |-> -1]
        ELSE IF p.Mode \notin validModes THEN [msg |-> "invalid coverage mode", index |-> -1]
        ELSE IF Len(p.Blocks) = 0 THEN [msg |-> "profile contains no coverage blocks", index |-> -1]
        ELSE IF bad # {} THEN [msg |-> validateBlock(p.Blocks[first]), index |-> first - 1]
        ELSE NoValidateError

(* Coverage profile parser: the profile files of the model *)

Position(startLine, startCol, endLine, endCol) ==
    <<startLine, ".", startCol, ",", endLine, ".", endCol>>

GoodPosition == Position("3", "1", "5", "2")

BlockLine(fileName, positions, numStmts, count) ==
    fileName \o <<":">> \o positions \o <<Space>> \o numStmts \o <<Space>> \o count

GoodLine == BlockLine(<<"f">>, GoodPosition, <<"1">>, <<"0">>)

\* Lines parseProfileLine accepts and validateBlock accepts.
ValidLines ==
    { GoodLine,
      <<Space>> \o BlockLine(<<"g">>, Position("6", "1", "6", "9"), <<"2">>, <<"1">>) \o <<Space>> }

\* Lines parseProfileLine accepts and validateBlock rejects.
InvalidLines ==
    { BlockLine(<<>>, GoodPosition, <<"1">>, <<"0">>),
      BlockLine(<<"f">>, Position("0", "1", "5", "2"), <<"1">>, <<"0">>),
      BlockLine(<<"f">>, Position("5", "1", "3", "2"), <<"1">>, <<"0">>),
      BlockLine(<<"f">>, Position("6", "9", "6", "1"), <<"1">>, <<"0">>),
      BlockLine(<<"f">>, GoodPosition, <<"0">>, <<"0">>),
      BlockLine(<<"f">>, GoodPosition, <<"1">>, <<"-", "1">>) }

\* Lines parseProfileLine rejects.
MalformedLines ==
    { <<"f", ":">> \o GoodPosition \o <<Space, "1">>,
      GoodLine \o <<Space, "0">>,
      <<"f">> \o GoodPosition \o <<Space, "1", Space, "0">>,
      <<"f", ":", "3", ".", "1", Space, "1", Space, "0">>,
      <<"f", ":", "3", ",", "5", ".", "2", Space, "1", Space, "0">>,
      <<"f", ":", "3", ".", "1", ",", "5", Space, "1", Space, "0">>,
      BlockLine(<<"f">>, Position("x", "1", "5", "2"), <<"1">>, <<"0">>),
      BlockLine(<<"f">>, Position("3", "1", "5", "y"), <<"1">>, <<"0">>),
      BlockLine(<<"f">>, GoodPosition, <<"x">>, <<"0">>),
      BlockLine(<<"f">>, GoodPosition, <<"1">>, <<"x">>) }

\* Mode lines, with a recognised value, an unrecognised one, and none.
ModeLines ==
    { ModePrefix \o <<"s", "e", "t">>,
      ModePrefix \o <<"f", "o", "o">>,
      <<"m", "o", "d", "e", ":">> }

\* Lines the scanner loop skips.
SkippedLines == { <<>>, <<"#", Space, "c">> }

ProfileLines == ValidLines \cup InvalidLines \cup MalformedLines \cup ModeLines \cup SkippedLines

\* The profile file: unreadable, or up to MaxLines lines.
ProfileFiles ==
    { [readable |-> FALSE, lines |-> <<>>] } \cup
    { [readable |-> TRUE, lines |-> l] : l \in UNION { [1..n -> ProfileLines] : n \in 0..MaxLines } }

NotParsed == [profile |-> NoProfile, err |-> "not run", line |-> 0]

NotValidated == [msg |-> "not run", index |-> -1]

ParserInit ==
    /\ ppc = "start"
    /\ profileText \in ProfileFiles
    /\ parsed = NotParsed
    /\ validateErr = NotValidated

\* AnalyzeProject, step 3: parser.ParseProfile(profilePath).
RunParseProfile ==
    /\ ppc = "start"
    /\ parsed' = ParseProfile(profileText)
    /\ ppc' = IF parsed'.err = Nil THEN "validate" ELSE "failed"
    /\ UNCHANGED <<profileText, validateErr>>
    /\ UNCHANGED <<analysisVars, validationVars, dataVars, mockVars, generateVars,
                 valueVars, complexityVars, renderVars>>

\* AnalyzeProject, step 3: parser.ValidateProfile(profile).  The profile is
\* only read.
RunValidateProfile ==
    /\ ppc = "validate"
    /\ validateErr' = ValidateProfile(parsed.profile)
    /\ ppc' = IF validateErr'.msg = Nil THEN "done" ELSE "failed"
    /\ UNCHANGED <<profileText, parsed>>
    /\ UNCHANGED <<analysisVars, validationVars, dataVars, mockVars, generateVars,
                 valueVars, complexityVars, renderVars>>

-----------------------------------------------------------------------------
(* Test data generator: strings, numbers and the random source *)

\* From here on a Go string is a TLA+ string.

MaxCases == 4       \* largest --max-cases
MaxDraws == 2       \* length of the stream of raw random numbers

StrategyPositive == "positive"
StrategyNegative == "negative"
StrategyEdge == "edge"
StrategyRandom == "random"
StrategyZero == "zero"

CharAt(s, i) == SubSeq(s, i, i)

UpperCase == "ABCDEFGHIJKLMNOPQRSTUVWXYZ"
LowerCase == "abcdefghijklmnopqrstuvwxyz"

\* strings.ToLower
RECURSIVE ToLower(_)
ToLower(s) ==
    IF s = "" THEN ""
    ELSE LET c == CharAt(s, 1)
             hit == {i \in 1..Len(UpperCase) : CharAt(UpperCase, i) = c}
         IN  (IF hit = {} THEN c ELSE CharAt(LowerCase, CHOOSE i \in hit : TRUE))
                 \o ToLower(SubSeq(s, 2, Len(s)))

\* strings.Contains
StrContains(s, substr) ==
    \E i \in 1..(Len(s) - Len(substr) + 1) : SubSeq(s, i, i + Len(substr) - 1) = substr

\* strings.Repeat
RECURSIVE Repeat(_, _)
Repeat(s, count) ==
    IF count = 0 THEN ""
    ELSE LET half == Repeat(s, count \div 2)
         IN  half \o half \o (IF count % 2 = 1 THEN s ELSE "")

\* fmt.Sprintf(`"%s"`, value)
Quote(value) == "\"" \o value \o "\""

DigitText == "0123456789"

RECURSIVE FormatUint(_)
FormatUint(n) ==
    IF n < 10 THEN CharAt(DigitText, n + 1)
    ELSE FormatUint(n \div 10) \o CharAt(DigitText, (n % 10) + 1)

\* strconv.Itoa
Itoa(n) == IF n < 0 THEN "-" \o FormatUint(0 - n) ELSE FormatUint(n)

\* Go's integer division truncates toward zero.
Quo(a, b) == IF a >= 0 THEN a \div b ELSE 0 - ((0 - a) \div b)

\* A dynamic Go value: its dynamic type t and, for a number, n; for a
\* string, its text s.  A number outside the checker's integers (or not an
\* integer) is written by its literal in s, with n = 0.
GoValue(t, n, s) == [t |-> t, n |-> n, s |-> s]
NilValue == GoValue("nil", 0, "")
StringValue(s) == GoValue("string", 0, s)
IntValue(n) == GoValue("int", n, "")
BoolValue(b) == GoValue("bool", IF b THEN 1 ELSE 0, "")

IsZeroNumber(v) == v.n = 0 /\ v.s = ""

\* strconv.FormatInt(value, 10)
FormatInt(v) == IF v.s # "" THEN v.s ELSE Itoa(v.n)

RECURSIVE StripZeros(_)
StripZeros(digits) ==
    IF Len(digits) > 1 /\ CharAt(digits, Len(digits)) = "0"
    THEN StripZeros(SubSeq(digits, 1, Len(digits) - 1)) ELSE digits

\* fmt.Sprintf("%g", value) for an integral value: %e form from 1e+06 on.
FormatG(n) ==
    LET digits == FormatUint(IF n < 0 THEN 0 - n ELSE n)
        sign == IF n < 0 THEN "-" ELSE ""
        mantissa == StripZeros(digits)
        exp == Len(digits) - 1
    IN  IF exp < 6 THEN sign \o digits
        ELSE sign \o CharAt(mantissa, 1)
                 \o (IF Len(mantissa) > 1 THEN "." \o SubSeq(mantissa, 2, Len(mantissa)) ELSE "")
                 \o "e+" \o (IF exp < 10 THEN "0" ELSE "") \o FormatUint(exp)

\* dg.rand: the stream of raw numbers the source will deliver, and the
\* position in it.  The stream is read cyclically.
RawDraws == {0, 5}

Rand(draws) == [draws |-> draws, next |-> 1]

Advance(r) == [r EXCEPT !.next = (@ % Len(r.draws)) + 1]

\* rand.Intn(n): a number in [0, n)
Intn(r, n) == r.draws[r.next] % n

\* rand.Float64(), times four: a number in [0, 1) in quarters
Float64Quarters(r) == r.draws[r.next] % 4

\* What a generate...Value method returns, with the random source after it.
Gen(value, text, r) == [value |-> value, text |-> text, rand |-> r]

(* Test data generator: values by type and strategy *)

isIntegerType(t) ==
    t \in {"int", "int8", "int16", "int32", "int64", "uint", "uint8", "uint16",
           "uint32", "uint64", "byte", "rune"}

isFloatType(t) == t \in {"float32", "float64"}

Charset == "abcdefghijklmnopqrstuvwxyzABCDEFGHIJKLMNOPQRSTUVWXYZ0123456789"

\* generateRandomString: one draw per character.
RECURSIVE generateRandomString(_, _)
generateRandomString(length, r) ==
    IF length = 0 THEN Gen(StringValue(""), "", r)
    ELSE LET c == CharAt(Charset, Intn(r, Len(Charset)) + 1)
             rest == generateRandomString(length - 1, Advance(r))
         IN  Gen(StringValue(c \o rest.value.s), "", rest.rand)

\* strings.Repeat("a", 1000)
LongString == Repeat("a", 1000)

\* string(rune(0)), which a TLA+ string cannot hold
NulString == "<NUL>"

\* generateStringValue with a draw under the zero strategy too.
generateStringValue_ZeroDraws(strategy, r) ==
    LET values == <<"", "test">>
        value == values[Intn(r, Len(values)) + 1]
    IN  Gen(StringValue(value), Quote(value), Advance(r))

\* generateStringValue
generateStringValue(strategy, r) ==
    LET Pick(values) ==
            LET value == values[Intn(r, Len(values)) + 1]
            IN  Gen(StringValue(value), Quote(value), Advance(r))
    IN  CASE strategy = StrategyPositive ->
                Pick(<<"test", "hello", "example", "valid_input", "sample_data">>)
          [] strategy = StrategyNegative ->
                Pick(<<"", "null", "undefined", "<script>", "'; DROP TABLE;", "../../etc/passwd">>)
          [] strategy = StrategyEdge ->
                Pick(<<"", " ", "\n", "\t", NulString, LongString>>)
          [] strategy = StrategyZero ->
                Gen(StringValue(""), "\"\"", r)
          [] strategy = StrategyRandom ->
                LET length == Intn(r, 50) + 1
                    value == generateRandomString(length, Advance(r))
                IN  Gen(value.value, Quote(value.value.s), value.rand)
          [] OTHER -> Gen(StringValue("test"), "\"test\"", r)

Int64Value(n) == GoValue("int64", n, "")
BigInt64(literal) == GoValue("int64", 0, literal)

\* getIntegerEdgeValues: []int64
getIntegerEdgeValues(goType) ==
    CASE goType = "int8" -> <<Int64Value(-128), Int64Value(-1), Int64Value(0), Int64Value(1), Int64Value(127)>>
      [] goType \in {"uint8", "byte"} -> <<Int64Value(0), Int64Value(1), Int64Value(127), Int64Value(255)>>
      [] goType = "int16" -> <<Int64Value(-32768), Int64Value(-1), Int64Value(0), Int64Value(1), Int64Value(32767)>>
      [] goType = "uint16" -> <<Int64Value(0), Int64Value(1), Int64Value(32767), Int64Value(65535)>>
      [] goType \in {"int32", "rune"} ->
            <<BigInt64("-2147483648"), Int64Value(-1), Int64Value(0), Int64Value(1), Int64Value(2147483647)>>
      [] goType = "uint32" -> <<Int64Value(0), Int64Value(1), Int64Value(2147483647), BigInt64("4294967295")>>
      [] goType \in {"int", "int64"} ->
            <<BigInt64("-9223372036854775808"), Int64Value(-1), Int64Value(0), Int64Value(1),
              BigInt64("9223372036854775807")>>
      [] goType \in {"uint", "uint64"} -> <<Int64Value(0), Int64Value(1), BigInt64("9223372036854775807")>>
      [] OTHER -> <<Int64Value(-1), Int64Value(0), Int64Value(1), Int64Value(42), Int64Value(100)>>

\* generateIntValue: an int, except under the edge strategy, an int64.
generateIntValue(strategy, goType, r) ==
    CASE strategy = StrategyPositive ->
            LET value == Intn(r, 1000) + 1 IN Gen(IntValue(value), Itoa(value), Advance(r))
      [] strategy = StrategyNegative ->
            LET value == 0 - (Intn(r, 1000) + 1) IN Gen(IntValue(value), Itoa(value), Advance(r))
      [] strategy = StrategyEdge ->
            LET edges == getIntegerEdgeValues(goType)
                value == edges[Intn(r, Len(edges)) + 1]
            IN  Gen(value, FormatInt(value), Advance(r))
      [] strategy = StrategyZero -> Gen(IntValue(0), "0", r)
      [] strategy = StrategyRandom ->
            LET value == Intn(r, 2000000) - 1000000 IN Gen(IntValue(value), Itoa(value), Advance(r))
      [] OTHER -> Gen(IntValue(42), "42", r)

\* strconv.ParseFloat of an edge literal
ParseFloat(goType, edge) ==
    CASE edge = "0.0" -> GoValue(goType, 0, "")
      [] edge = "1.0" -> GoValue(goType, 1, "")
      [] edge = "-1.0" -> GoValue(goType, -1, "")
      [] OTHER -> GoValue(goType, 0, edge)

\* generateFloatValue: rand.Float64() delivers quarters, so that the value
\* is integral.
generateFloatValue(strategy, goType, r) ==
    CASE strategy = StrategyPositive ->
            LET value == Float64Quarters(r) * 25
            IN  Gen(GoValue(goType, value, ""), FormatG(value), Advance(r))
      [] strategy = StrategyNegative ->
            LET value == 0 - Float64Quarters(r) * 25
            IN  Gen(GoValue(goType, value, ""), IF value = 0 THEN "-0" ELSE FormatG(value), Advance(r))
      [] strategy = StrategyEdge ->
            LET edges == <<"0.0", "0.1", "-0.1", "1.0", "-1.0">> \o
                         (IF goType = "float32"
                          THEN <<"3.4028235e+38", "-3.4028235e+38", "1.175494e-38">>
                          ELSE <<"1.7976931348623157e+308", "-1.7976931348623157e+308",
                                 "4.9406564584124654e-324">>)
                edge == edges[Intn(r, Len(edges)) + 1]
            IN  Gen(ParseFloat(goType, edge), edge, Advance(r))
      [] strategy = StrategyZero -> Gen(GoValue("float64", 0, ""), "0.0", r)
      [] strategy = StrategyRandom ->
            LET value == (Float64Quarters(r) - 2) * 500000
            IN  Gen(GoValue(goType, value, ""), FormatG(value), Advance(r))
      [] OTHER -> Gen(GoValue("float64", 0, "3.14"), "3.14", r)

\* generateBoolValue
generateBoolValue(strategy, r) ==
    CASE strategy = StrategyPositive -> Gen(BoolValue(TRUE), "true", r)
      [] strategy \in {StrategyNegative, StrategyEdge} -> Gen(BoolValue(FALSE), "false", r)
      [] strategy = StrategyZero -> Gen(BoolValue(FALSE), "false", r)
      [] strategy = StrategyRandom ->
            LET value == Intn(r, 2) = 1
            IN  Gen(BoolValue(value), IF value THEN "true" ELSE "false", Advance(r))
      [] OTHER -> Gen(BoolValue(TRUE), "true", r)

\* generateMapValue
generateMapValue(goType, strategy, r) ==
    IF strategy = StrategyZero THEN Gen(NilValue, "nil", r)
    ELSE Gen(NilValue, "make(" \o goType \o ")", r)

\* generateInterfaceValue
generateInterfaceValue(strategy, r) ==
    CASE strategy = StrategyPositive -> Gen(StringValue("test"), "\"test\"", r)
      [] strategy = StrategyNegative -> Gen(NilValue, "nil", r)
      [] strategy = StrategyEdge ->
            LET values == <<"nil", "\"\"", "0", "false">>
            IN  Gen(NilValue, values[Intn(r, Len(values)) + 1], Advance(r))
      [] strategy = StrategyZero -> Gen(NilValue, "nil", r)
      [] OTHER -> Gen(IntValue(42), "42", r)

\* generateCustomTypeValue and generateStructValue
generateCustomTypeValue(goType, strategy, r) == Gen(NilValue, goType \o "{}", r)

generateStructValue(goType, strategy, r) == Gen(NilValue, goType \o "{}", r)

RECURSIVE generateValueForType(_, _, _)
RECURSIVE buildSlice(_, _, _, _)

\* The elements of buildSlice, joined with ", ".
RECURSIVE buildElements(_, _, _, _)
buildElements(elementType, length, strategy, r) ==
    IF length = 0 THEN Gen(NilValue, "", r)
    ELSE LET element == generateValueForType(elementType, strategy, r)
             rest == buildElements(elementType, length - 1, strategy, element.rand)
         IN  Gen(NilValue,
                 element.text \o (IF length > 1 THEN ", " ELSE "") \o rest.text,
                 rest.rand)

\* buildSlice
buildSlice(elementType, length, strategy, r) ==
    IF length = 0 THEN Gen(NilValue, elementType \o "{}", r)
    ELSE LET elements == buildElements(elementType, length, strategy, r)
         IN  Gen(NilValue, "[]" \o elementType \o "{" \o elements.text \o "}", elements.rand)

\* generateSliceValue
generateSliceValue(goType, strategy, r) ==
    LET elementType == TrimPrefix(goType, "[]")
    IN  CASE strategy = StrategyPositive ->
                buildSlice(elementType, Intn(r, 5) + 1, StrategyPositive, Advance(r))
          [] strategy = StrategyNegative ->
                buildSlice(elementType, Intn(r, 3) + 1, StrategyNegative, Advance(r))
          [] strategy = StrategyEdge ->
                IF Intn(r, 2) = 0
                THEN buildSlice(elementType, 0, strategy, Advance(r))
                ELSE buildSlice(elementType, 1, StrategyEdge, Advance(r))
          [] strategy = StrategyZero -> Gen(NilValue, "nil", r)
          [] strategy = StrategyRandom ->
                buildSlice(elementType, Intn(r, 10), StrategyRandom, Advance(r))
          [] OTHER -> buildSlice(elementType, 2, StrategyPositive, r)

\* generatePointerValue
generatePointerValue(goType, strategy, r) ==
    LET baseType == TrimPrefix(goType, "*")
        base == generateValueForType(baseType, strategy, r)
    IN  IF strategy \in {StrategyZero, StrategyEdge} THEN Gen(NilValue, "nil", r)
        ELSE Gen(NilValue, "&" \o base.text, base.rand)

\* generateValueForType
generateValueForType(goType, strategy, r) ==
    CASE goType = "string" -> generateStringValue(strategy, r)
      [] isIntegerType(goType) -> generateIntValue(strategy, goType, r)
      [] isFloatType(goType) -> generateFloatValue(strategy, goType, r)
      [] goType = "bool" -> generateBoolValue(strategy, r)
      [] HasPrefix(goType, "[]") -> generateSliceValue(goType, strategy, r)
      [] HasPrefix(goType, "map[") -> generateMapValue(goType, strategy, r)
      [] HasPrefix(goType, "*") -> generatePointerValue(goType, strategy, r)
      [] goType \in {"interface{}", "any"} -> generateInterfaceValue(strategy, r)
      [] OTHER -> IF StrContains(goType, ".")
                  THEN generateCustomTypeValue(goType, strategy, r)
                  ELSE generateStructValue(goType, strategy, r)

(* Test data generator: test cases *)

\* generateArithmeticResult
generateArithmeticResult(inputs, operation) == IntValue(42)

\* generateLengthResult: the length of a string input (the functions of the
\* model have at most one), or 0.
generateLengthResult(inputs) ==
    LET strs == {name \in DOMAIN inputs : inputs[name].t = "string"}
    IN  IF strs = {} THEN IntValue(0)
        ELSE IntValue(Len(inputs[CHOOSE name \in strs : TRUE].s))

\* generateExpectedResult, for a function with results.
generateExpectedResult(function, inputs, strategy, r) ==
    LET returnType == function.ReturnTypes[1]
        funcName == ToLower(function.Name)
        Return(value) == Gen(value, "", r)
        Switch(default) ==
            CASE StrContains(funcName, "add") \/ StrContains(funcName, "sum") ->
                    IF isIntegerType(returnType)
                    THEN Return(generateArithmeticResult(inputs, "add")) ELSE default
              [] OTHER ->
                CASE StrContains(funcName, "multiply") \/ StrContains(funcName, "mul") ->
                        IF isIntegerType(returnType)
                        THEN Return(generateArithmeticResult(inputs, "multiply")) ELSE default
                  [] OTHER ->
                    IF StrContains(funcName, "length") \/ StrContains(funcName, "len")
                    THEN Return(generateLengthResult(inputs))
                    ELSE IF StrContains(funcName, "empty") \/ StrContains(funcName, "isempty")
                    THEN Return(BoolValue(strategy \in {StrategyEdge, StrategyZero}))
                    ELSE IF StrContains(funcName, "valid") \/ StrContains(funcName, "isvalid")
                    THEN Return(BoolValue(strategy = StrategyPositive))
                    ELSE default
    IN  Switch(generateValueForType(returnType, StrategyPositive, r))

\* hasProblematicInputs
hasProblematicInputs(function, inputs) ==
    LET funcName == ToLower(function.Name)
    IN  \/ /\ StrContains(funcName, "div")
           /\ \E name \in DOMAIN inputs :
                /\ StrContains(ToLower(name), "divisor") \/ StrContains(ToLower(name), "denominator")
                /\ inputs[name].t \in {"int", "float64"}
                /\ IsZeroNumber(inputs[name])
        \/ \E name \in DOMAIN inputs : inputs[name] = NilValue

\* shouldExpectError
shouldExpectError(function, strategy, inputs) ==
    IF ~function.HasErrorReturn THEN FALSE
    ELSE CASE strategy = StrategyNegative -> TRUE
           [] strategy = StrategyEdge -> hasProblematicInputs(function, inputs)
           [] OTHER -> FALSE

\* generateErrorPattern
generateErrorPattern(function, strategy) ==
    LET funcName == ToLower(function.Name)
    IN  IF StrContains(funcName, "div") THEN "division by zero"
        ELSE IF StrContains(funcName, "parse") THEN "invalid"
        ELSE IF StrContains(funcName, "open") \/ StrContains(funcName, "read") THEN "no such file"
        ELSE IF StrContains(funcName, "connect") THEN "connection"
        ELSE "error"

\* getStrategyDescription
getStrategyDescription(strategy, functionName) ==
    CASE strategy = StrategyPositive -> "Test " \o functionName \o " with valid positive inputs"
      [] strategy = StrategyNegative -> "Test " \o functionName \o " with invalid/negative inputs"
      [] strategy = StrategyEdge -> "Test " \o functionName \o " with edge case inputs"
      [] strategy = StrategyZero -> "Test " \o functionName \o " with zero/empty inputs"
      [] strategy = StrategyRandom -> "Test " \o functionName \o " with random inputs"
      [] OTHER -> "Test " \o functionName

NoInputs == <<>>

\* The loop over function.Parameters in generateCasesForStrategy: the two
\* maps, and the random source afterwards.
RECURSIVE generateInputs(_, _, _, _)
generateInputs(params, strategy, maps, r) ==
    IF params = <<>> THEN [maps EXCEPT !.rand = r]
    ELSE LET param == Head(params)
             Store(gen) ==
                generateInputs(Tail(params), strategy,
                               [maps EXCEPT !.Inputs = (param.Name :> gen.value) @@ @,
                                            !.InputStrings = (param.Name :> gen.text) @@ @],
                               gen.rand)
         IN  Store(generateValueForType(param.Type, strategy, r))

\* One iteration of the loop of generateCasesForStrategy.
generateCase(function, strategy, i, r) ==
    LET TestCase(made, expected, expectError) ==
            [case |-> [Name |-> strategy \o "_case_" \o Itoa(i + 1),
                       Description |-> getStrategyDescription(strategy, function.Name),
                       Strategy |-> strategy,
                       Inputs |-> made.Inputs,
                       InputStrings |-> made.InputStrings,
                       ExpectedResult |-> expected.value,
                       ExpectError |-> expectError,
                       ErrorPattern |-> IF expectError THEN generateErrorPattern(function, strategy)
                                        ELSE "",
                       Tags |-> <<strategy>>],
             rand |-> expected.rand]
        Expect(made) ==
            TestCase(made,
                     IF Len(function.ReturnTypes) > 0
                     THEN generateExpectedResult(function, made.Inputs, strategy, made.rand)
                     ELSE Gen(NilValue, "", made.rand),
                     shouldExpectError(function, strategy, made.Inputs))
    IN  Expect(generateInputs(function.Parameters, strategy,
                              [Inputs |-> NoInputs, InputStrings |-> NoInputs, rand |-> r], r))

\* generateCasesForStrategy, from case i + 1 on.
RECURSIVE generateCasesFrom(_, _, _, _, _)
generateCasesFrom(function, strategy, count, i, r) ==
    IF i >= count THEN [cases |-> <<>>, rand |-> r]
    ELSE LET Cons(one, rest) == [cases |-> <<one.case>> \o rest.cases, rand |-> rest.rand]
             Rest(one) == Cons(one, generateCasesFrom(function, strategy, count, i + 1, one.rand))
         IN  Rest(generateCase(function, strategy, i, r))

generateCasesForStrategy(function, strategy, count, r) ==
    generateCasesFrom(function, strategy, count, 0, r)

\* The loop over the strategies in GenerateTestData.
RECURSIVE generateForStrategies(_, _, _, _, _, _)
generateForStrategies(function, strategies, casesPerStrategy, maxCases, testCases, r) ==
    IF strategies = <<>> THEN [cases |-> testCases, rand |-> r]
    ELSE LET Collect(gen) ==
                LET all == testCases \o gen.cases
                IN  IF Len(all) >= maxCases THEN [cases |-> all, rand |-> gen.rand]
                    ELSE generateForStrategies(function, Tail(strategies), casesPerStrategy,
                                               maxCases, all, gen.rand)
         IN  Collect(generateCasesForStrategy(function, Head(strategies), casesPerStrategy, r))

\* GenerateTestData: the test set, the (always nil) error, whether the call
\* panicked (slice bounds out of range), and the random source afterwards.
GenerateTestData(function, maxCases, r) ==
    LET strategies == <<StrategyPositive, StrategyEdge, StrategyZero>> \o
                      (IF function.HasErrorReturn THEN <<StrategyNegative>> ELSE <<>>)
        quotient == Quo(maxCases, Len(strategies))
        casesPerStrategy == IF quotient < 1 THEN 1 ELSE quotient
        Trim(gen) ==
            IF Len(gen.cases) > maxCases /\ maxCases < 0
            THEN [testSet |-> [FunctionName |-> function.Name, TestCases |-> <<>>],
                  err |-> Nil, panic |-> TRUE, rand |-> gen.rand]
            ELSE [testSet |-> [FunctionName |-> function.Name,
                               TestCases |-> IF Len(gen.cases) > maxCases
                                             THEN SubSeq(gen.cases, 1, maxCases) ELSE gen.cases],
                  err |-> Nil, panic |-> FALSE, rand |-> gen.rand]
    IN  Trim(generateForStrategies(function, strategies, casesPerStrategy, maxCases, <<>>, r))

(* Test data generator: the functions of the model and the run *)

Param(name, type) == [Name |-> name, Type |-> type]

Function(name, params, returnTypes) ==
    [Name |-> name, Parameters |-> params, ReturnTypes |-> returnTypes,
     HasErrorReturn |-> \E i \in 1..Len(returnTypes) : returnTypes[i] = "error"]

DataFunctions ==
    { Function("Divide", <<Param("dividend", "int"), Param("divisor", "int")>>, <<"int", "error">>),
      Function("divide", <<Param("a", "float64"), Param("divisor", "float64")>>, <<"float64">>),
      Function("SafeDiv", <<Param("x", "int"), Param("denominator", "int")>>, <<"int", "error">>),
      Function("Greet", <<Param("name", "string")>>, <<"string">>),
      Function("IsEmpty", <<Param("items", "[]string")>>, <<"bool">>),
      Function("ParseConfig", <<Param("path", "string"), Param("cfg", "*Config")>>, <<"error">>) }

\* The functions of one source file, in the order generateTestFileContent
\* hands them to the DataGenerator.
DataFunctionLists ==
    {<<f>> : f \in DataFunctions} \cup {<<f, g>> : f \in DataFunctions, g \in DataFunctions}

DataInit ==
    /\ dpc = "run"
    /\ dataTodo \in DataFunctionLists
    /\ maxTestCases \in -1..MaxCases
    /\ rand \in {Rand(draws) : draws \in [1..MaxDraws -> RawDraws]}
    /\ testData = <<>>

\* generateTestFileContent: dataGenerator.GenerateTestData for the next
\* function.  A panic ends the program.
RunGenerateTestData ==
    /\ dpc = "run"
    /\ LET function == Head(dataTodo)
           Record(res) ==
               /\ testData' = Append(testData, [function |-> function, testSet |-> res.testSet,
                                                err |-> res.err, panic |-> res.panic,
                                                before |-> rand])
               /\ rand' = res.rand
               /\ dpc' = IF res.panic THEN "panicked"
                         ELSE IF Tail(dataTodo) = <<>> THEN "done" ELSE "run"
       IN  Record(GenerateTestData(function, maxTestCases, rand))
    /\ dataTodo' = Tail(dataTodo)
    /\ UNCHANGED maxTestCases
    /\ UNCHANGED <<analysisVars, validationVars, parserVars, mockVars, generateVars,
                 valueVars, complexityVars, renderVars>>

-----------------------------------------------------------------------------
(* Mock generator: the interface's syntax tree and what is read from it *)

MaxFields == 2      \* entries in an interface's method list

\* ast.Expr of a type: the node kind, a name, and the operand types.
Ident(name) == [kind |-> "Ident", name |-> name, x |-> <<>>]
StarExpr(x) == [kind |-> "StarExpr", name |-> "", x |-> <<x>>]
ArrayType(elt) == [kind |-> "ArrayType", name |-> "", x |-> <<elt>>]
MapType(key, value) == [kind |-> "MapType", name |-> "", x |-> <<key, value>>]
SelectorExpr(x, sel) == [kind |-> "SelectorExpr", name |-> sel, x |-> <<x>>]
EmptyInterface == [kind |-> "InterfaceType", name |-> "", x |-> <<>>]
FuncTypeExpr == [kind |-> "FuncType", name |-> "", x |-> <<>>]
Ellipsis(elt) == [kind |-> "Ellipsis", name |-> "", x |-> <<elt>>]

\* ast.Field of a parameter or result list
Field(names, type) == [Names |-> names, Type |-> type]

\* An entry of interfaceType.Methods.List: a method (one name and a
\* function type)...
MethodSpec(name, params, results) ==
    [Names |-> <<name>>, isFunc |-> TRUE, Params |-> params, Results |-> results,
     Type |-> FuncTypeExpr, methods |-> <<>>]

\* ... or an embedded interface (no name, the type's expression), here with
\* the methods that interface contributes.
Embedded(type, methods) ==
    [Names |-> <<>>, isFunc |-> FALSE, Params |-> <<>>, Results |-> <<>>,
     Type |-> type, methods |-> methods]

\* strings.Join
RECURSIVE Join(_, _)
Join(elems, sep) ==
    IF elems = <<>> THEN ""
    ELSE IF Len(elems) = 1 THEN elems[1]
    ELSE elems[1] \o sep \o Join(Tail(elems), sep)

\* typeToString
RECURSIVE typeToString(_)
typeToString(expr) ==
    CASE expr.kind = "Ident" -> expr.name
      [] expr.kind = "StarExpr" -> "*" \o typeToString(expr.x[1])
      [] expr.kind = "ArrayType" -> "[]" \o typeToString(expr.x[1])
      [] expr.kind = "MapType" -> "map[" \o typeToString(expr.x[1]) \o "]" \o typeToString(expr.x[2])
      [] expr.kind = "SelectorExpr" -> typeToString(expr.x[1]) \o "." \o expr.name
      [] expr.kind = "InterfaceType" -> "interface{}"
      [] expr.kind = "FuncType" -> "func"
      [] OTHER -> "interface{}"

MockParam(name, type) == [Name |-> name, Type |-> type]

\* The loop of parseMethodParams (prefix "arg") and of parseMethodReturns
\* (prefix "ret"), from parameter number paramIndex on.
RECURSIVE parseFieldList(_, _, _)
parseFieldList(fields, prefix, paramIndex) ==
    IF fields = <<>> THEN <<>>
    ELSE LET field == Head(fields)
             typeStr == typeToString(field.Type)
         IN  IF Len(field.Names) = 0
             THEN <<MockParam(prefix \o Itoa(paramIndex), typeStr)>>
                      \o parseFieldList(Tail(fields), prefix, paramIndex + 1)
             ELSE [i \in 1..Len(field.Names) |-> MockParam(field.Names[i], typeStr)]
                      \o parseFieldList(Tail(fields), prefix, paramIndex + Len(field.Names))

\* parseMethodParams
parseMethodParams(params) == parseFieldList(params, "arg", 0)

\* parseMethodReturns
parseMethodReturns(returns) == parseFieldList(returns, "ret", 0)

\* buildMethodSignature
buildMethodSignature(method) ==
    LET params == [i \in 1..Len(method.Parameters) |->
                       method.Parameters[i].Name \o " " \o method.Parameters[i].Type]
        returns == [i \in 1..Len(method.Returns) |-> method.Returns[i].Type]
        signature == "(" \o Join(params, ", ") \o ")"
    IN  IF Len(returns) = 0 THEN signature
        ELSE IF Len(returns) = 1 THEN signature \o " " \o returns[1]
        ELSE signature \o " (" \o Join(returns, ", ") \o ")"

\* buildCallArgs
buildCallArgs(params) == Join([i \in 1..Len(params) |-> params[i].Name], ", ")

\* buildReturnCall
buildReturnCall(returns) ==
    LET single == returns[1].Type
        ReturnExpr(i) ==
            LET type == returns[i].Type
                index == Itoa(i - 1)
            IN  CASE type = "string" -> "args.String(" \o index \o ")"
                  [] type \in {"int", "int32", "int64"} -> "args.Int(" \o index \o ")"
                  [] type = "bool" -> "args.Bool(" \o index \o ")"
                  [] type = "error" -> "args.Error(" \o index \o ")"
                  [] OTHER -> "args.Get(" \o index \o ").(" \o type \o ")"
    IN  IF Len(returns) = 0 THEN ""
        ELSE IF Len(returns) = 1
        THEN CASE single = "string" -> "args.String(0)"
               [] single \in {"int", "int32", "int64"} -> "args.Int(0)"
               [] single = "bool" -> "args.Bool(0)"
               [] single = "error" -> "args.Error(0)"
               [] single = "interface{}" -> "args.Get(0)"
               [] OTHER -> "args.Get(0).(" \o single \o ")"
        ELSE Join([i \in 1..Len(returns) |-> ReturnExpr(i)], ", ")

\* The body of the loop of parseInterfaceMethods, for one name.
parseMethod(name, method) ==
    LET mockMethod == [Name |-> name,
                    Parameters |-> parseMethodParams(method.Params),
                    Returns |-> parseMethodReturns(method.Results)]
    IN  [Name |-> name,
         Parameters |-> mockMethod.Parameters,
         Returns |-> mockMethod.Returns,
         Signature |-> buildMethodSignature(mockMethod),
         CallArgs |-> buildCallArgs(mockMethod.Parameters),
         ReturnCall |-> buildReturnCall(mockMethod.Returns)]

\* parseInterfaceMethods: only the entries whose type is a function type.
RECURSIVE parseInterfaceMethods(_)
parseInterfaceMethods(list) ==
    IF list = <<>> THEN <<>>
    ELSE LET method == Head(list)
         IN  (IF method.isFunc
              THEN [i \in 1..Len(method.Names) |-> parseMethod(method.Names[i], method)]
              ELSE <<>>)
                 \o parseInterfaceMethods(Tail(list))

(* Mock generator: parseInterface and generateMockFile *)

ProjectPath == "/p"

\* strings.LastIndex for a one-character separator: 1-based, 0 for -1
StrLastIndex(s, c) ==
    IF \E i \in 1..Len(s) : CharAt(s, i) = c
    THEN CHOOSE i \in 1..Len(s) : CharAt(s, i) = c /\ \A j \in (i + 1)..Len(s) : CharAt(s, j) # c
    ELSE 0

\* filepath.Dir of a path with a directory
Dir(path) == SubSeq(path, 1, StrLastIndex(path, "/") - 1)

\* extractInterfaceName: the part after the last "."
extractInterfaceName(interfaceType) ==
    SubSeq(interfaceType, StrLastIndex(interfaceType, ".") + 1, Len(interfaceType))

\* getImportPath
getImportPath(filePath, projectPath) ==
    Dir(TrimPrefix(TrimPrefix(filePath, projectPath), "/"))

NoInterface == <<>>

\* parseInterface: the *MockInterface (a one-element sequence; NoInterface
\* for nil) and the error.  file is what findInterfaceFile settled on.
parseInterface(interfaceType, file, projectPath) ==
    LET name == extractInterfaceName(interfaceType)
        Wanted(spec) == spec.Name = name /\ spec.isInterface
        hits == SelectSeq(file.decls, Wanted)
    IN  IF file.disk = "unreadable" THEN [iface |-> NoInterface, err |-> "failed to read file"]
        ELSE IF file.disk = "syntax error" THEN [iface |-> NoInterface, err |-> "failed to parse file"]
        ELSE IF hits = <<>> THEN [iface |-> NoInterface, err |-> Nil]
        ELSE [iface |-> << [Name |-> hits[Len(hits)].Name,
                            Package |-> file.package,
                            FilePath |-> file.path,
                            ImportPath |-> getImportPath(file.path, projectPath),
                            Methods |-> parseInterfaceMethods(hits[Len(hits)].Methods)] >>,
              err |-> Nil]

\* One {{range .Methods}} round of mockTemplate: the stand-in's name and
\* signature, its m.Called statement and its return expression ("" for
\* none).
renderMethod(method) ==
    [Name |-> method.Name,
     Signature |-> method.Signature,
     Called |-> (IF Len(method.Returns) > 0 THEN "args := " ELSE "")
                    \o "m.Called("
                    \o (IF Len(method.Parameters) > 0 THEN method.CallArgs ELSE "")
                    \o ")",
     Return |-> IF Len(method.Returns) > 0 THEN method.ReturnCall ELSE ""]

\* generateMockFile
generateMockFile(iface, projectPath) ==
    LET types == UNION { {m.Parameters[i].Type : i \in 1..Len(m.Parameters)} \cup
                         {m.Returns[i].Type : i \in 1..Len(m.Returns)} :
                         m \in {iface.Methods[k] : k \in 1..Len(iface.Methods)} }
        needsContext == \E t \in types : StrContains(t, "context.Context")
        needsIO == \E t \in types : StrContains(t, "io.")
        imports == <<"github.com/stretchr/testify/mock">>
                       \o (IF needsContext THEN <<"context">> ELSE <<>>)
                       \o (IF needsIO THEN <<"io">> ELSE <<>>)
        mockFileName == "mock_" \o ToLower(iface.Name) \o ".go"
        mockFilePath == Dir(iface.FilePath) \o "/" \o mockFileName
    IN  [Interface |-> iface,
         FilePath |-> IF HasPrefix(mockFilePath, projectPath)
                      THEN TrimPrefix(TrimPrefix(mockFilePath, projectPath), "/")
                      ELSE mockFilePath,
         Content |-> [Package |-> iface.Package,
                      Imports |-> imports,
                      Name |-> "Mock" \o iface.Name,
                      Methods |-> [k \in 1..Len(iface.Methods) |-> renderMethod(iface.Methods[k])]],
         TestFilePath |-> iface.FilePath]

(* Mock generator: the interfaces of the model and the run *)

Unnamed == <<>>

InterfaceEntries ==
    { MethodSpec("Get", <<Field(<<"key">>, Ident("string"))>>,
                 <<Field(Unnamed, Ident("string")), Field(Unnamed, Ident("error"))>>),
      MethodSpec("Count", <<>>, <<Field(Unnamed, Ident("int32"))>>),
      MethodSpec("Size", <<>>, <<Field(Unnamed, Ident("int"))>>),
      MethodSpec("Put", <<Field(Unnamed, Ident("string")), Field(Unnamed, ArrayType(Ident("byte")))>>, <<>>),
      MethodSpec("Add", <<Field(<<"a", "b">>, Ident("int"))>>, <<Field(Unnamed, Ident("int64"))>>),
      MethodSpec("Value", <<>>, <<Field(Unnamed, EmptyInterface)>>),
      MethodSpec("Load", <<Field(Unnamed, SelectorExpr(Ident("context"), "Context"))>>,
                 <<Field(Unnamed, EmptyInterface), Field(Unnamed, Ident("error"))>>),
      MethodSpec("Find", <<Field(<<"id">>, Ident("int"))>>,
                 <<Field(Unnamed, StarExpr(Ident("User"))), Field(Unnamed, Ident("bool"))>>),
      MethodSpec("Logf", <<Field(<<"format">>, Ident("string")),
                           Field(<<"args">>, Ellipsis(EmptyInterface))>>, <<>>),
      Embedded(SelectorExpr(Ident("io"), "Reader"),
               << MethodSpec("Read", <<Field(<<"p">>, ArrayType(Ident("byte")))>>,
                             <<Field(<<"n">>, Ident("int")), Field(<<"err">>, Ident("error"))>>) >>) }

\* Method lists of an interface: up to MaxFields different entries.
MethodLists ==
    { list \in UNION { [1..n -> InterfaceEntries] : n \in 1..MaxFields } :
          \A i, j \in 1..Len(list) : i # j => list[i] # list[j] }

TypeSpec(name, isInterface, methods) ==
    [Name |-> name, isInterface |-> isInterface, Methods |-> methods]

SourceFile(disk, decls) ==
    [disk |-> disk, path |-> "/p/store/store.go", package |-> "store", decls |-> decls]

\* The file findInterfaceFile settles on: unreadable, not Go, without the
\* interface, with a struct of its name, or declaring it.
InterfaceFiles ==
    { SourceFile("unreadable", <<>>), SourceFile("syntax error", <<>>),
      SourceFile("ok", <<>>),
      SourceFile("ok", <<TypeSpec("Store", FALSE, <<>>)>>) } \cup
    { SourceFile("ok", <<TypeSpec("Store", TRUE, list)>>) : list \in MethodLists }

NoMock == <<>>

NotLookedUp == [iface |-> NoInterface, err |-> "not run"]

MockInit ==
    /\ mpc = "start"
    /\ mockRequest \in [interfaceType : {"Store", "db.Store"}, file : InterfaceFiles]
    /\ mockInterface = NotLookedUp
    /\ generatedMock = NoMock

\* findInterfacesToMock: parseInterface for a parameter's type.  An error
\* or a nil interface leaves the type without a mock.
ParseInterface ==
    /\ mpc = "start"
    /\ mockInterface' = parseInterface(mockRequest.interfaceType, mockRequest.file, ProjectPath)
    /\ mpc' = IF mockInterface'.iface # NoInterface THEN "parsed" ELSE "skipped"
    /\ UNCHANGED <<mockRequest, generatedMock>>
    /\ UNCHANGED <<analysisVars, validationVars, parserVars, dataVars, generateVars,
                 valueVars, complexityVars, renderVars>>

\* GenerateMocks: generateMockFile for an interface that was found.
GenerateMockFile ==
    /\ mpc = "parsed"
    /\ generatedMock' = <<generateMockFile(mockInterface.iface[1], ProjectPath)>>
    /\ mpc' = "done"
    /\ UNCHANGED <<mockRequest, mockInterface>>
    /\ UNCHANGED <<analysisVars, validationVars, parserVars, dataVars, generateVars,
                 valueVars, complexityVars, renderVars>>

-----------------------------------------------------------------------------
(* Test generator: options, project, paths *)

\* filepath.Join of a directory and a name
PathJoin(dir, name) == IF dir = "." THEN name ELSE dir \o "/" \o name

\* getTestFilePath
getTestFilePath(sourceFile) ==
    LET dir == Dir(sourceFile)
        base == SubSeq(sourceFile, StrLastIndex(sourceFile, "/") + 1, Len(sourceFile))
        dot == StrLastIndex(base, ".")
        nameWithoutExt == IF dot = 0 THEN base ELSE SubSeq(base, 1, dot - 1)
    IN  PathJoin(dir, nameWithoutExt \o "_test.go")

\* matchesPattern
matchesPattern(functionName, pattern) ==
    IF pattern = functionName THEN TRUE
    ELSE IF StrContains(pattern, "*")
    THEN LET star == CHOOSE i \in 1..Len(pattern) :
                         CharAt(pattern, i) = "*" /\ \A j \in 1..(i - 1) : CharAt(pattern, j) # "*"
         IN  HasPrefix(functionName, SubSeq(pattern, 1, star - 1))
    ELSE FALSE

\* shouldGenerateTest
shouldGenerateTest(function, opts) ==
    /\ \A i \in 1..Len(opts.IgnoreFunctions) : ~matchesPattern(function.Name, opts.IgnoreFunctions[i])
    /\ function.IsTestable
    /\ ~HasPrefix(function.Name, "Test")
    /\ ~HasPrefix(function.Name, "Benchmark")
    /\ ~HasPrefix(function.Name, "Example")
    /\ function.Name \notin {"init", "main"}

\* groupFunctionsByFile: the map from a source file to its functions, in
\* the order of the list.
groupFunctionsByFile(functions, opts) ==
    LET Wanted(f) == shouldGenerateTest(f, opts)
        kept == SelectSeq(functions, Wanted)
    IN  [file \in {kept[i].File : i \in 1..Len(kept)} |->
            LET InFile(f) == f.File = file IN SelectSeq(kept, InFile)]

\* needsMocks
needsMocks(function) == function.CallsExternal \/ Len(function.Dependencies) > 0

\* An os.MkdirAll or os.WriteFile call that succeeded.
FileOp(call, path) == [op |-> call, path |-> path]

\* fileExists: a file written earlier in the run exists.
fileExists(path, opts, project, writes) ==
    LET fullPath == PathJoin(opts.ProjectPath, path)
        state == IF FileOp("WriteFile", fullPath) \in Range(writes) THEN "exists"
                 ELSE project.testFiles[path]
    IN  IF state = "stat error" THEN [exists |-> FALSE, err |-> "permission denied"]
        ELSE [exists |-> state # "absent", err |-> Nil]

\* parseExistingTests: the names of the Test functions of the file, and the
\* error.
parseExistingTests(testFilePath, project) ==
    IF project.testFiles[testFilePath] = "unparseable"
    THEN [existingTests |-> {}, err |-> "syntax error"]
    ELSE [existingTests |-> project.existingTests, err |-> Nil]

\* TemplateEngine.GenerateTest for the project's templates: the rendered
\* test, and the error when the template cannot be executed for the
\* function.
GenerateTest(function, style, project) ==
    IF [function |-> function.Name, style |-> style] \in project.renderFails
    THEN [content |-> "", err |-> "failed to execute template"]
    ELSE [content |-> style \o " test of " \o function.Name, err |-> Nil]

\* The models.TestCase of one generated case
UnitTestCase(function, generatedCase, opts) ==
    [FunctionName |-> function.Name,
     TestName |-> "Test" \o function.Name,
     TestType |-> "unit",
     InputCount |-> Cardinality(DOMAIN generatedCase.Inputs),
     HasMocks |-> opts.GenerateMocks /\ needsMocks(function)]

BenchmarkCase(function) ==
    [FunctionName |-> function.Name,
     TestName |-> "Benchmark" \o function.Name,
     TestType |-> "benchmark",
     InputCount |-> Len(function.Parameters),
     HasMocks |-> FALSE]

\* The loop of generateTestFileContent: the parts of the content, the test
\* cases, what a verbose run prints about skipped functions, and the
\* random source afterwards.
RECURSIVE generateTestsFor(_, _, _, _, _)
generateTestsFor(functions, existingTests, opts, project, r) ==
    IF functions = <<>>
    THEN [contentParts |-> <<>>, testCases |-> <<>>, output |-> <<>>, rand |-> r]
    ELSE LET function == Head(functions)
             testName == "Test" \o function.Name
             test == GenerateTest(function, opts.TemplateStyle, project)
             bench == GenerateTest(function, "benchmark", project)
             withBench == opts.GenerateBenchmarks /\ bench.err = Nil
             Say(text) == IF opts.Verbose THEN <<text \o function.Name>> ELSE <<>>
             Tests(data, rest) ==
                 IF testName \in existingTests /\ ~opts.Overwrite
                 THEN [rest EXCEPT !.output = Say("Skipping existing test: Test") \o @]
                 ELSE IF data.err # Nil
                 THEN [rest EXCEPT !.output = Say("Failed to generate test data for ") \o @]
                 ELSE IF test.err # Nil
                 THEN [rest EXCEPT !.output = Say("Failed to generate test for ") \o @]
                 ELSE [contentParts |-> <<test.content>>
                                            \o (IF withBench THEN <<bench.content>> ELSE <<>>)
                                            \o rest.contentParts,
                       testCases |-> [i \in 1..Len(data.testSet.TestCases) |->
                                          UnitTestCase(function, data.testSet.TestCases[i], opts)]
                                         \o (IF withBench THEN <<BenchmarkCase(function)>> ELSE <<>>)
                                         \o rest.testCases,
                       output |-> rest.output,
                       rand |-> rest.rand]
             Rest(data) ==
                 Tests(data,
                       generateTestsFor(Tail(functions), existingTests, opts, project,
                                        IF testName \in existingTests /\ ~opts.Overwrite
                                        THEN r ELSE data.rand))
         IN  Rest(GenerateTestData(function, opts.MaxTestCases, r))

\* generateTestFileContent
generateTestFileContent(functions, existingTests, opts, project, r) ==
    LET Content(made) ==
            [testContent |-> <<"package " \o functions[1].Package>> \o made.contentParts,
             testCases |-> made.testCases, err |-> Nil,
             output |-> made.output, rand |-> made.rand]
    IN  Content(generateTestsFor(functions, existingTests, opts, project, r))

\* writeTestFile: the error, and the calls that succeeded.
writeTestFile(testFilePath, opts, project) ==
    LET fullPath == PathJoin(opts.ProjectPath, testFilePath)
        dir == Dir(fullPath)
    IN  IF dir \in project.unwritable
        THEN [err |-> "failed to create directory", writes |-> <<>>]
        ELSE IF fullPath \in project.unwritable
        THEN [err |-> "failed to write file", writes |-> <<FileOp("MkdirAll", dir)>>]
        ELSE [err |-> Nil, writes |-> <<FileOp("MkdirAll", dir), FileOp("WriteFile", fullPath)>>]

NoFile == <<>>

\* What generateTestFile returns for a file that is passed over or fails.
NoGeneratedFile(failure, said, r) ==
    [file |-> NoFile, err |-> failure, writes |-> <<>>, output |-> said, rand |-> r]

\* generateTestFile that goes on to generate and write whether or not the
\* test file exists.
generateTestFile_NoOverwriteCheck(sourceFile, functions, opts, project, writes, r) ==
    LET testFilePath == getTestFilePath(sourceFile)
        stat == fileExists(testFilePath, opts, project, writes)
        exists == stat.exists
        existing == IF exists THEN parseExistingTests(testFilePath, project)
                    ELSE [existingTests |-> {}, err |-> Nil]
        written == IF opts.DryRun THEN [err |-> Nil, writes |-> <<>>]
                   ELSE writeTestFile(testFilePath, opts, project)
        Generated(made) ==
            IF stat.err # Nil
            THEN NoGeneratedFile("failed to check test file existence: " \o stat.err, <<>>, r)
            ELSE IF made.err # Nil
            THEN NoGeneratedFile("failed to generate test content: " \o made.err,
                                 made.output, made.rand)
            ELSE IF written.err # Nil
            THEN [file |-> NoFile, err |-> "failed to write test file: " \o written.err,
                  writes |-> written.writes, output |-> made.output, rand |-> made.rand]
            ELSE [file |-> << [Path |-> testFilePath,
                               Package |-> functions[1].Package,
                               TestsGenerated |-> Len(made.testCases),
                               TestCases |-> made.testCases,
                               Created |-> ~exists,
                               Modified |-> exists] >>,
                  err |-> Nil, writes |-> written.writes,
                  output |-> made.output, rand |-> made.rand]
    IN  Generated(generateTestFileContent(functions, existing.existingTests, opts, project, r))

\* generateTestFile: the *GeneratedFile (NoFile for nil), the error, the
\* calls that wrote to the disk, what a verbose run prints about skips, and
\* the random source afterwards.
generateTestFile(sourceFile, functions, opts, project, writes, r) ==
    LET testFilePath == getTestFilePath(sourceFile)
        stat == fileExists(testFilePath, opts, project, writes)
        exists == stat.exists
        existing == IF exists THEN parseExistingTests(testFilePath, project)
                    ELSE [existingTests |-> {}, err |-> Nil]
        said == IF exists /\ existing.err # Nil /\ opts.Verbose
                THEN <<"Failed to parse existing tests in " \o testFilePath>> ELSE <<>>
        written == IF opts.DryRun THEN [err |-> Nil, writes |-> <<>>]
                   ELSE writeTestFile(testFilePath, opts, project)
        Generated(made) ==
            IF stat.err # Nil
            THEN NoGeneratedFile("failed to check test file existence: " \o stat.err, <<>>, r)
            ELSE IF exists /\ ~opts.Overwrite
            THEN NoGeneratedFile(Nil, IF opts.Verbose
                                      THEN <<"Test file " \o testFilePath \o " exists, skipping">>
                                      ELSE <<>>, r)
            ELSE IF made.err # Nil
            THEN NoGeneratedFile("failed to generate test content: " \o made.err,
                                 said \o made.output, made.rand)
            ELSE IF written.err # Nil
            THEN [file |-> NoFile, err |-> "failed to write test file: " \o written.err,
                  writes |-> written.writes, output |-> said \o made.output, rand |-> made.rand]
            ELSE [file |-> << [Path |-> testFilePath,
                               Package |-> functions[1].Package,
                               TestsGenerated |-> Len(made.testCases),
                               TestCases |-> made.testCases,
                               Created |-> ~exists,
                               Modified |-> exists] >>,
                  err |-> Nil, writes |-> written.writes,
                  output |-> said \o made.output, rand |-> made.rand]
    IN  Generated(generateTestFileContent(functions, existing.existingTests, opts, project, r))

(* Test generator: mocks of a run *)

\* strings.ToUpper of one character
ToUpperChar(c) ==
    LET hit == {i \in 1..Len(LowerCase) : CharAt(LowerCase, i) = c}
    IN  IF hit = {} THEN c ELSE CharAt(UpperCase, CHOOSE i \in hit : TRUE)

BasicTypes == {"string", "int", "int8", "int16", "int32", "int64",
               "uint", "uint8", "uint16", "uint32", "uint64", "float32", "float64",
               "bool", "byte", "rune", "error"}

\* isInterfaceType
RECURSIVE isInterfaceType(_)
isInterfaceType(typeName) ==
    IF \E basic \in BasicTypes :
           \/ typeName = basic
           \/ HasPrefix(typeName, "[]" \o basic)
           \/ HasPrefix(typeName, "map[")
    THEN FALSE
    ELSE IF HasPrefix(typeName, "*") THEN isInterfaceType(TrimPrefix(typeName, "*"))
    ELSE IF HasPrefix(typeName, "[]") \/ HasPrefix(typeName, "map[") THEN FALSE
    ELSE \/ StrContains(typeName, ".")
         \/ Len(typeName) > 0 /\ ToUpperChar(CharAt(typeName, 1)) = CharAt(typeName, 1)

\* The types findInterfacesToMock looks up for one function: its
\* parameters' types, then its dependencies.
InterfaceRequests(function) ==
    LET Request(type, ofParam) == [type |-> type, ofParam |-> ofParam]
        IsRequest(req) == isInterfaceType(req.type)
    IN  SelectSeq([i \in 1..Len(function.Parameters) |->
                       Request(function.Parameters[i].Type, TRUE)]
                  \o [i \in 1..Len(function.Dependencies) |->
                       Request(function.Dependencies[i], FALSE)],
                  IsRequest)

RECURSIVE lookUpInterfaces(_, _, _, _, _)
\* The lookups of findInterfacesToMock, request by request: interfaceMap
\* and what a verbose run prints.
lookUpInterfaces(requests, projectPath, project, verbose, found) ==
    IF requests = <<>> THEN found
    ELSE LET req == Head(requests)
             Found(parse) ==
                 IF parse.err # Nil
                 THEN IF req.ofParam /\ verbose
                      THEN [found EXCEPT !.output = Append(@, "Could not parse interface " \o req.type)]
                      ELSE found
                 ELSE IF parse.iface # NoInterface
                 THEN [found EXCEPT !.interfaceMap =
                          [name \in DOMAIN @ \cup {parse.iface[1].Name} |->
                              IF name = parse.iface[1].Name THEN parse.iface[1] ELSE @[name]]]
                 ELSE found
         IN  lookUpInterfaces(Tail(requests), projectPath, project, verbose,
                              Found(parseInterface(req.type, project.interfaces[req.type],
                                                   projectPath)))

RECURSIVE requestsOf(_)
requestsOf(functions) ==
    IF functions = <<>> THEN <<>>
    ELSE InterfaceRequests(Head(functions)) \o requestsOf(Tail(functions))

\* findInterfacesToMock: the map of the interfaces found, by name
findInterfacesToMock(functions, projectPath, project, verbose) ==
    lookUpInterfaces(requestsOf(functions), projectPath, project, verbose,
                     [interfaceMap |-> <<>>, output |-> <<>>])

\* The orders in which a range over a map with these keys can run.
Orders(keys) ==
    {order \in [1..Cardinality(keys) -> keys] :
         \A i, j \in 1..Cardinality(keys) : i # j => order[i] # order[j]}

\* GenerateMocks, with the order in which the interfaces come out of the
\* map: the mocks and what a verbose run prints.
GenerateMocks(functions, projectPath, project, verbose, order) ==
    LET Mocks(found) ==
            [mocks |-> [i \in 1..Len(order) |->
                           generateMockFile(found.interfaceMap[order[i]], projectPath)],
             err |-> Nil,
             output |-> found.output]
    IN  Mocks(findInterfacesToMock(functions, projectPath, project, verbose))

RECURSIVE writeMocksFrom(_, _, _)
\* The loop of WriteMocks
writeMocksFrom(mocks, projectPath, project) ==
    IF mocks = <<>> THEN [err |-> Nil, writes |-> <<>>]
    ELSE LET fullPath == PathJoin(projectPath, Head(mocks).FilePath)
             dir == Dir(fullPath)
             rest == writeMocksFrom(Tail(mocks), projectPath, project)
         IN  IF dir \in project.unwritable
             THEN [err |-> "failed to create directory " \o dir, writes |-> <<>>]
             ELSE IF fullPath \in project.unwritable
             THEN [err |-> "failed to write mock file " \o fullPath,
                   writes |-> <<FileOp("MkdirAll", dir)>>]
             ELSE [rest EXCEPT !.writes =
                      <<FileOp("MkdirAll", dir), FileOp("WriteFile", fullPath)>> \o @]

\* WriteMocks that writes in a dry run too.
WriteMocks_IgnoresDryRun(mocks, projectPath, dryRun, project) ==
    writeMocksFrom(mocks, projectPath, project)

\* WriteMocks: the error, and the calls that succeeded.
WriteMocks(mocks, projectPath, dryRun, project) ==
    IF dryRun THEN [err |-> Nil, writes |-> <<>>]
    ELSE writeMocksFrom(mocks, projectPath, project)

\* TestGenerator.generateMocks
generateMocks(functions, opts, project, order) ==
    LET Written(generated, written) ==
            IF generated.err # Nil
            THEN [mocks |-> <<>>, err |-> "mock generation failed: " \o generated.err,
                  writes |-> <<>>, output |-> generated.output]
            ELSE IF Len(generated.mocks) = 0
            THEN [mocks |-> <<>>, err |-> Nil, writes |-> <<>>, output |-> generated.output]
            ELSE [mocks |-> generated.mocks,
                  err |-> IF written.err # Nil THEN "failed to write mock files: " \o written.err
                          ELSE Nil,
                  writes |-> written.writes,
                  output |-> generated.output]
        Write(generated) ==
            Written(generated,
                    WriteMocks(generated.mocks, opts.ProjectPath, opts.DryRun, project))
    IN  Write(GenerateMocks(functions, opts.ProjectPath, project, opts.Verbose, order))

(* Test generator: the projects of the model and the run of Generate *)

SourceFunction(name, file, package, params, returnTypes, isTestable, dependencies) ==
    [Name |-> name, File |-> file, Package |-> package,
     Parameters |-> params, ReturnTypes |-> returnTypes,
     HasErrorReturn |-> \E i \in 1..Len(returnTypes) : returnTypes[i] = "error",
     IsTestable |-> isTestable, Dependencies |-> dependencies, CallsExternal |-> FALSE]

fnDivide ==
    SourceFunction("Divide", "pkg/calc.go", "calc",
                   <<Param("dividend", "int"), Param("divisor", "int")>>, <<"int", "error">>,
                   TRUE, <<>>)
fnSave ==
    SourceFunction("Save", "pkg/calc.go", "calc",
                   <<Param("store", "Store"), Param("log", "Logger")>>, <<"error">>,
                   TRUE, <<"io.Writer", "fmt">>)
fnIsZero ==
    SourceFunction("IsZero", "util/num.go", "util", <<Param("n", "int64")>>, <<"bool">>, TRUE, <<>>)
fnMain == SourceFunction("main", "util/num.go", "util", <<>>, <<>>, TRUE, <<>>)
fnLegacy ==
    SourceFunction("LegacyLoad", "util/old.go", "util", <<Param("path", "string")>>, <<"error">>,
                   TRUE, <<>>)
fnGenerated ==
    SourceFunction("String", "util/num.go", "util", <<>>, <<"string">>, FALSE, <<>>)

\* analysisResult.UncoveredFunctions of a project with two packages, and of
\* one with the package util alone.
TwoPackages == <<fnDivide, fnSave, fnMain, fnIsZero>>

UtilAlone == <<fnIsZero, fnLegacy, fnGenerated>>

\* What is at the path of a test file before the run.
TestFileStates == {"absent", "exists", "unparseable", "stat error"}

StoreFile(disk) ==
    SourceFile(disk, << TypeSpec("Store", TRUE,
        << MethodSpec("Get", <<Field(<<"key">>, Ident("string"))>>,
                      <<Field(Unnamed, Ident("string")), Field(Unnamed, Ident("error"))>>) >>) >>)

LoggerFile(isInterface) ==
    SourceFile("ok", << TypeSpec("Store", FALSE, <<>>), TypeSpec("Logger", isInterface,
        << MethodSpec("Size", <<>>, <<Field(Unnamed, Ident("int"))>>) >>) >>)

\* The files findInterfaceFile settles on for Store, Logger and io.Writer:
\* the file that declares Store can be unreadable.
InterfaceWorlds ==
    { [type \in {"Store", "Logger", "io.Writer"} |->
          IF type = "Store" THEN StoreFile(disk)
          ELSE IF type = "Logger" THEN LoggerFile(TRUE)
          ELSE SourceFile("ok", <<>>)] :
      disk \in {"ok", "unreadable"} }

\* The paths at which a write fails: a file, or a directory that cannot be
\* made.
UnwritableSets ==
    { {}, {"/p/store/mock_store.go"}, {"/p/pkg/calc_test.go", "/p/util"} }

RenderFailures ==
    { {},
      {[function |-> "Save", style |-> "standard"], [function |-> "Divide", style |-> "benchmark"]} }

Project(functions, calcTest, interfaces, unwritable, renderFails, templatesLoad) ==
    [UncoveredFunctions |-> functions,
     OverallCoverage |-> 50,
     TotalFunctions |-> 4,
     testFiles |-> [path \in {"pkg/calc_test.go", "util/num_test.go", "util/old_test.go"} |->
                       IF path = "pkg/calc_test.go" THEN calcTest ELSE "absent"],
     existingTests |-> {"TestDivide"},
     interfaces |-> interfaces,
     unwritable |-> unwritable,
     renderFails |-> renderFails,
     templatesLoad |-> templatesLoad]

NoInterfaces ==
    [type \in {"Store", "Logger", "io.Writer"} |-> SourceFile("ok", <<>>)]

\* The project whose external templates do not parse, the projects with
\* two packages, and the projects with the package util alone, which has no
\* interface and no test file.
Projects ==
    { Project(UtilAlone, "absent", NoInterfaces, {}, {}, FALSE) } \cup
    { Project(TwoPackages, calcTest, interfaces, unwritable, renderFails, TRUE) :
          calcTest \in TestFileStates, interfaces \in InterfaceWorlds,
          unwritable \in UnwritableSets, renderFails \in RenderFailures } \cup
    { Project(UtilAlone, "absent", NoInterfaces, unwritable, {}, TRUE) :
          unwritable \in UnwritableSets }

RunMaxCases == 2    \* --max-cases of the runs

\* The DataGenerator's random source when the run starts.
RunSeed == Rand([i \in 1..MaxDraws |-> 5])

OptionSets ==
    [ProjectPath : {ProjectPath},
     DryRun : BOOLEAN,
     TemplateStyle : {"standard"},
     GenerateMocks : BOOLEAN,
     GenerateBenchmarks : BOOLEAN,
     Overwrite : BOOLEAN,
     IgnoreFunctions : {<<"Legacy*">>},
     MaxTestCases : {RunMaxCases},
     Verbose : BOOLEAN]

NoResult == <<>>

NotReturned == [result |-> NoResult, err |-> "not returned"]

\* &models.GenerationResult{...} of generateTests
NewGenerationResult(opts) ==
    [ProjectPath |-> opts.ProjectPath,
     GeneratedFiles |-> <<>>,
     TestsGenerated |-> 0, FilesCreated |-> 0, FilesModified |-> 0, FunctionsCovered |-> 0,
     EstimatedCoverage |-> 0,
     Errors |-> <<>>, Warnings |-> <<>>]

GenerateInit ==
    /\ gpc = "start"
    /\ tgOptions \in OptionSets
    /\ tgProject \in Projects
    /\ tgTodo = {}
    /\ tgRand = RunSeed
    /\ tgWrites = <<>>
    /\ tgOutput = <<>>
    /\ tgMocks = <<>>
    /\ tgResult = NoResult
    /\ tgReturn = NotReturned

\* Generate: NewTestGenerator and initialize.  Templates that do not load
\* end the run with an error.
Initialize ==
    /\ gpc = "start"
    /\ IF tgProject.templatesLoad
       THEN /\ gpc' = IF tgOptions.GenerateMocks THEN "mocks" ELSE "group"
            /\ UNCHANGED tgReturn
       ELSE /\ gpc' = "returned"
            /\ tgReturn' = [result |-> NoResult,
                            err |-> "failed to initialize generator: failed to load templates"]
    /\ UNCHANGED <<tgOptions, tgProject, tgTodo, tgRand, tgWrites, tgOutput, tgMocks, tgResult>>
    /\ UNCHANGED <<analysisVars, validationVars, parserVars, dataVars, mockVars,
                 valueVars, complexityVars, renderVars>>

\* Generate: generator.generateMocks; its error is printed by a verbose run.
RunGenerateMocks ==
    /\ gpc = "mocks"
    /\ LET Mocked(made) ==
               /\ tgMocks' = made.mocks
               /\ tgWrites' = tgWrites \o made.writes
               /\ tgOutput' = tgOutput \o made.output \o
                      (IF made.err # Nil /\ tgOptions.Verbose
                       THEN <<"Mock generation failed: " \o made.err>> ELSE <<>>)
       IN  \E order \in Orders(DOMAIN findInterfacesToMock(tgProject.UncoveredFunctions,
                                                           tgOptions.ProjectPath, tgProject,
                                                           tgOptions.Verbose).interfaceMap) :
               Mocked(generateMocks(tgProject.UncoveredFunctions, tgOptions, tgProject, order))
    /\ gpc' = "group"
    /\ UNCHANGED <<tgOptions, tgProject, tgTodo, tgRand, tgResult, tgReturn>>
    /\ UNCHANGED <<analysisVars, validationVars, parserVars, dataVars, mockVars,
                 valueVars, complexityVars, renderVars>>

\* generateTests: the new result and the file groups.
GroupFunctions ==
    /\ gpc = "group"
    /\ tgResult' = NewGenerationResult(tgOptions)
    /\ tgTodo' = DOMAIN groupFunctionsByFile(tgProject.UncoveredFunctions, tgOptions)
    /\ gpc' = "files"
    /\ UNCHANGED <<tgOptions, tgProject, tgRand, tgWrites, tgOutput, tgMocks, tgReturn>>
    /\ UNCHANGED <<analysisVars, validationVars, parserVars, dataVars, mockVars,
                 valueVars, complexityVars, renderVars>>

\* The body of the loop of generateTests for one file group.
addGeneratedFile(result, filePath, functions, generated, verbose) ==
    LET errorMsg == "Failed to generate tests for " \o filePath \o ": " \o generated.err
        file == generated.file[1]
    IN  IF generated.err # Nil
        THEN [result |-> [result EXCEPT !.Errors = Append(@, errorMsg)],
              output |-> IF verbose THEN <<errorMsg>> ELSE <<>>]
        ELSE IF generated.file # NoFile
        THEN [result |-> [result EXCEPT !.GeneratedFiles = Append(@, file),
                                        !.TestsGenerated = @ + file.TestsGenerated,
                                        !.FilesCreated = IF file.Created THEN @ + 1 ELSE @,
                                        !.FilesModified = IF file.Created THEN @ ELSE @ + 1,
                                        !.FunctionsCovered = @ + Len(functions)],
              output |-> <<>>]
        ELSE [result |-> result, output |-> <<>>]

\* generateTests: one round of the loop over the file groups, which come
\* out of the map in any order.
GenerateTestFile ==
    /\ gpc = "files"
    /\ \E filePath \in tgTodo :
          LET functions == groupFunctionsByFile(tgProject.UncoveredFunctions, tgOptions)[filePath]
              Added(generated, added) ==
                  /\ tgResult' = added.result
                  /\ tgOutput' = tgOutput \o generated.output \o added.output
                  /\ tgWrites' = tgWrites \o generated.writes
                  /\ tgRand' = generated.rand
                  /\ tgTodo' = tgTodo \ {filePath}
              Add(generated) ==
                  Added(generated, addGeneratedFile(tgResult, filePath, functions, generated,
                                                    tgOptions.Verbose))
          IN  Add(generateTestFile(filePath, functions, tgOptions, tgProject, tgWrites, tgRand))
    /\ UNCHANGED <<gpc, tgOptions, tgProject, tgMocks, tgReturn>>
    /\ UNCHANGED <<analysisVars, validationVars, parserVars, dataVars, mockVars,
                 valueVars, complexityVars, renderVars>>

\* The estimate at the end of generateTests.  With 4 functions in the
\* project every quotient is exact.
estimateCoverage(result, project) ==
    LET improvementEstimate == (result.FunctionsCovered * 100) \div project.TotalFunctions
        estimated == project.OverallCoverage + improvementEstimate
    IN  IF result.FunctionsCovered > 0
        THEN [result EXCEPT !.EstimatedCoverage = IF estimated > 100 THEN 100 ELSE estimated]
        ELSE [result EXCEPT !.EstimatedCoverage = project.OverallCoverage]

\* generateTests: after the loop.
FinishGenerateTests ==
    /\ gpc = "files"
    /\ tgTodo = {}
    /\ tgResult' = estimateCoverage(tgResult, tgProject)
    /\ gpc' = "validate"
    /\ UNCHANGED <<tgOptions, tgProject, tgTodo, tgRand, tgWrites, tgOutput, tgMocks, tgReturn>>
    /\ UNCHANGED <<analysisVars, validationVars, parserVars, dataVars, mockVars,
                 valueVars, complexityVars, renderVars>>

\* Generate: validateTests unless the run is dry, whose findings and error
\* a verbose run prints, and the return of the result.
ValidateAndReturn ==
    /\ gpc = "validate"
    /\ \E outcome \in {"valid", "issues", "failed"} :
          tgOutput' = tgOutput \o
              (IF ~tgOptions.DryRun /\ tgOptions.Verbose /\ outcome # "valid"
               THEN <<"Test validation " \o outcome>> ELSE <<>>)
    /\ tgReturn' = [result |-> tgResult, err |-> Nil]
    /\ gpc' = "returned"
    /\ UNCHANGED <<tgOptions, tgProject, tgTodo, tgRand, tgWrites, tgMocks, tgResult>>
    /\ UNCHANGED <<analysisVars, validationVars, parserVars, dataVars, mockVars,
                 valueVars, complexityVars, renderVars>>

-----------------------------------------------------------------------------
(* Test data generator: one value for one integer parameter *)

\* isIntegerType's intTypes
IntegerTypes == {"int", "int8", "int16", "int32", "int64",
                 "uint", "uint8", "uint16", "uint32", "uint64", "byte", "rune"}

\* Raw numbers the random source can deliver next.
IntDraws == {0, 3, 126, 999}

\* A parameter of an integer type, a strategy, and a DataGenerator whose
\* source is about to deliver one of the raw numbers.
ValueInit ==
    /\ ipc = "call"
    /\ intRequest \in [strategy : {StrategyPositive, StrategyNegative, StrategyEdge,
                                   StrategyZero, StrategyRandom},
                       goType : IntegerTypes,
                       rand : {Rand(<<draw>>) : draw \in IntDraws}]
    /\ intResult = <<>>

\* generateCasesForStrategy: dg.generateValueForType(param.Type, strategy)
RunGenerateValue ==
    /\ ipc = "call"
    /\ intResult' = <<generateValueForType(intRequest.goType, intRequest.strategy,
                                            intRequest.rand)>>
    /\ ipc' = "done"
    /\ UNCHANGED intRequest
    /\ UNCHANGED <<analysisVars, validationVars, parserVars, dataVars, mockVars, generateVars,
                   complexityVars, renderVars>>

-----------------------------------------------------------------------------
(* Source analyzer: calculateComplexity *)

MaxStmts == 2       \* statements in a function body
MaxClauses == 2     \* clauses of a switch or select

\* An ast.Node of a function body: its type and the nodes ast.Inspect
\* reaches below it, in order.
Node(kind, children) == [kind |-> kind, children |-> children]

SeqsUpTo(S, n) == UNION {[1..k -> S] : k \in 0..n}

\* Statements without a statement inside: an expression statement, an if,
\* for or range with an empty block, and a switch, type switch or select
\* with empty clauses.
FlatStmts ==
    {Node(kind, <<>>) : kind \in {"ExprStmt", "IfStmt", "ForStmt", "RangeStmt"}}
    \cup {Node(kind, clauses) : kind \in {"SwitchStmt", "TypeSwitchStmt"},
                                clauses \in SeqsUpTo({Node("CaseClause", <<>>)}, MaxClauses)}
    \cup {Node("SelectStmt", clauses) :
              clauses \in SeqsUpTo({Node("CommClause", <<>>)}, MaxClauses)}

\* Statements with one statement inside.
NestedStmts ==
    {Node(kind, <<stmt>>) : kind \in {"IfStmt", "ForStmt", "RangeStmt"}, stmt \in FlatStmts}
    \cup {Node(kind, <<Node("CaseClause", <<stmt>>)>>) :
              kind \in {"SwitchStmt", "TypeSwitchStmt"}, stmt \in FlatStmts}
    \cup {Node("SelectStmt", <<Node("CommClause", <<stmt>>)>>) : stmt \in FlatStmts}

FuncBodies == SeqsUpTo(FlatStmts \cup NestedStmts, MaxStmts)

\* The callback of ast.Inspect in calculateComplexity, for one node
complexityOf(n) ==
    IF n.kind \in {"IfStmt", "ForStmt", "RangeStmt", "SwitchStmt", "TypeSwitchStmt", "SelectStmt"}
    THEN 1
    ELSE IF n.kind = "CaseClause" THEN 1
    ELSE 0

\* ast.Inspect over the nodes and everything below them
RECURSIVE inspect(_)
inspect(nodes) ==
    IF nodes = <<>> THEN 0
    ELSE complexityOf(Head(nodes)) + inspect(Head(nodes).children) + inspect(Tail(nodes))

\* calculateComplexity
calculateComplexity(funcDecl) == 1 + inspect(<<funcDecl>>)

\* extractFunction is about to compute function.Complexity.
ComplexityInit ==
    /\ cpc = "call"
    /\ funcBody \in FuncBodies
    /\ complexity = 0

\* extractFunction: function.Complexity = e.calculateComplexity(funcDecl)
RunCalculateComplexity ==
    /\ cpc = "call"
    /\ complexity' = calculateComplexity(Node("FuncDecl", funcBody))
    /\ cpc' = "done"
    /\ UNCHANGED funcBody
    /\ UNCHANGED <<analysisVars, validationVars, parserVars, dataVars, mockVars, generateVars,
                   valueVars, renderVars>>

-----------------------------------------------------------------------------
(* Template engine: the test of one function *)

\* generateTestValue
generateTestValue(paramType, scenario) ==
    CASE paramType = "string" -> IF scenario = "positive" THEN "\"test\"" ELSE "\"\""
      [] paramType \in {"int", "int32", "int64"} -> IF scenario = "positive" THEN "42" ELSE "0"
      [] paramType \in {"float32", "float64"} -> IF scenario = "positive" THEN "3.14" ELSE "0.0"
      [] paramType = "bool" -> "true"
      [] paramType = "[]string" ->
            IF scenario = "positive" THEN "[]string{\"item1\", \"item2\"}" ELSE "nil"
      [] paramType = "[]int" -> IF scenario = "positive" THEN "[]int{1, 2, 3}" ELSE "nil"
      [] OTHER -> IF HasPrefix(paramType, "*") THEN "nil" ELSE paramType \o "{}"

\* getZeroValue
getZeroValue(t) ==
    CASE t = "string" -> "\"\""
      [] t \in {"int", "int32", "int64", "int8", "int16"} -> "0"
      [] t \in {"uint", "uint32", "uint64", "uint8", "uint16"} -> "0"
      [] t \in {"float32", "float64"} -> "0.0"
      [] t = "bool" -> "false"
      [] t \in {"byte", "rune"} -> "0"
      [] OTHER -> IF HasPrefix(t, "[]") \/ HasPrefix(t, "map[") \/ HasPrefix(t, "*")
                  THEN "nil" ELSE t \o "{}"

\* generateExpectedValue
generateExpectedValue(returnType, function, inputs) ==
    CASE returnType = "string" ->
            IF StrContains(ToLower(function.Name), "name") THEN "\"expected_name\""
            ELSE "\"result\""
      [] returnType \in {"int", "int32", "int64"} ->
            IF StrContains(ToLower(function.Name), "add") /\ Len(inputs) = 2
            THEN "expected_sum" ELSE "42"
      [] returnType = "bool" -> "true"
      [] returnType \in {"float32", "float64"} -> "3.14"
      [] OTHER -> getZeroValue(returnType)

InputData(name, type, value) == [Name |-> name, Type |-> type, Value |-> value]

OutputData(value, type) == [Value |-> value, Type |-> type]

TestCaseData(name, inputs, expectedOutput, expectError) ==
    [Name |-> name, Inputs |-> inputs, ExpectedOutput |-> expectedOutput,
     ExpectError |-> expectError]

\* generatePositiveTestCase
generatePositiveTestCase(function) ==
    LET inputs == [i \in 1..Len(function.Parameters) |->
                      InputData(function.Parameters[i].Name, function.Parameters[i].Type,
                                generateTestValue(function.Parameters[i].Type, "positive"))]
    IN  TestCaseData("positive_case", inputs,
            [i \in 1..Len(function.ReturnTypes) |->
                IF function.ReturnTypes[i] = "error" THEN OutputData("nil", "error")
                ELSE OutputData(generateExpectedValue(function.ReturnTypes[i], function, inputs),
                                function.ReturnTypes[i])],
            FALSE)

\* generateEdgeCaseForType: the case, or none (nil).
generateEdgeCaseForType(param, function) ==
    CASE param.Type = "string" ->
            <<TestCaseData("empty_string", <<InputData(param.Name, param.Type, "\"\"")>>, <<>>, FALSE)>>
      [] param.Type \in {"int", "int32", "int64"} ->
            <<TestCaseData("zero_value", <<InputData(param.Name, param.Type, "0")>>, <<>>, FALSE)>>
      [] param.Type \in {"[]string", "[]int"} ->
            <<TestCaseData("empty_slice", <<InputData(param.Name, param.Type, "nil")>>, <<>>, FALSE)>>
      [] OTHER -> <<>>

\* generateEdgeCases, from parameter i on.
RECURSIVE generateEdgeCasesFrom(_, _)
generateEdgeCasesFrom(function, i) ==
    IF i > Len(function.Parameters) THEN <<>>
    ELSE generateEdgeCaseForType(function.Parameters[i], function)
             \o generateEdgeCasesFrom(function, i + 1)

generateEdgeCases(function) == generateEdgeCasesFrom(function, 1)

\* generateErrorCases
generateErrorCases(function) ==
    (IF StrContains(ToLower(function.Name), "divide")
     THEN <<TestCaseData("division_by_zero", <<>>, <<>>, TRUE)>> ELSE <<>>)
    \o (IF StrContains(ToLower(function.Name), "parse")
           \/ StrContains(ToLower(function.Name), "convert")
        THEN <<TestCaseData("invalid_input", <<>>, <<>>, TRUE)>> ELSE <<>>)

\* TemplateEngine.generateTestCases
generateTestCases(function, style) ==
    <<generatePositiveTestCase(function)>>
    \o generateEdgeCases(function)
    \o (IF function.HasErrorReturn THEN generateErrorCases(function) ELSE <<>>)

\* selectTemplate
selectTemplate(function, style, tableStyle) ==
    IF tableStyle /\ Len(function.Parameters) > 1 THEN "table_test"
    ELSE CASE style = "testify" -> "testify_test"
           [] style = "benchmark" -> "benchmark_test"
           [] OTHER -> IF function.IsMethod THEN "method_test"
                       ELSE IF function.HasErrorReturn THEN "error_test"
                       ELSE "function_test"

\* buildTemplateData: what the templates read of the *TemplateData.
buildTemplateData(function, style, tableStyle) ==
    [Function |-> function,
     TestName |-> "Test" \o function.Name,
     TableDriven |-> tableStyle,
     AssertionStyle |-> style,
     TestCases |-> generateTestCases(function, style),
     HasMocks |-> needsMocks(function),
     MockStructs |-> <<>>]

\* The texts of a list of InputData or OutputData, in order.
ValuesOf(list) == [i \in 1..Len(list) |-> list[i].Value]

\* What a template prints of a function whatever the layout: the type of
\* the receiver it constructs.
ReceiverText(function) == IF function.IsMethod THEN <<function.ReceiverType>> ELSE <<>>

\* A rendered function: its name, its layout, the cases it holds (the name
\* it prints for each, "" when it prints none, and the values in order), and
\* the types and literals its body holds.
Rendered(name, layout, cases, texts) ==
    [err |-> Nil, name |-> name, layout |-> layout, cases |-> cases, texts |-> texts]

RenderError(failure) == [err |-> failure, name |-> "", layout |-> "", cases |-> <<>>, texts |-> <<>>]

RECURSIVE Flatten(_)
Flatten(lists) == IF lists = <<>> THEN <<>> ELSE Head(lists) \o Flatten(Tail(lists))

\* functionTestTemplate with .TableDriven: a slice of structs with one field
\* per parameter, a want of the first return type, and one entry per case
\* with its name and its inputs; a loop of t.Run over it.
executeTableLayout(data) ==
    Rendered(data.TestName, "table",
        [i \in 1..Len(data.TestCases) |->
            [Name |-> data.TestCases[i].Name, Values |-> ValuesOf(data.TestCases[i].Inputs)]],
        [i \in 1..Len(data.Function.Parameters) |-> data.Function.Parameters[i].Type]
        \o (IF Len(data.Function.ReturnTypes) > 0 THEN <<data.Function.ReturnTypes[1]>> ELSE <<>>)
        \o Flatten([i \in 1..Len(data.TestCases) |->
                       ValuesOf(data.TestCases[i].Inputs)
                       \o ValuesOf(data.TestCases[i].ExpectedOutput)])
        \o ReceiverText(data.Function))

\* functionTestTemplate without .TableDriven: the calls in sequence, the
\* first bare and every later one in a t.Run under the name of its case.
executeSequentialLayout(data) ==
    Rendered(data.TestName, "sequential",
        [i \in 1..Len(data.TestCases) |->
            [Name |-> IF i = 1 THEN "" ELSE data.TestCases[i].Name,
             Values |-> ValuesOf(data.TestCases[i].Inputs)]],
        Flatten([i \in 1..Len(data.TestCases) |->
                    ValuesOf(data.TestCases[i].Inputs)
                    \o (IF Len(data.Function.ReturnTypes) > 0 /\ ~data.TestCases[i].ExpectError
                        THEN ValuesOf(data.TestCases[i].ExpectedOutput) ELSE <<>>)
                    \o ReceiverText(data.Function)]))

\* testifyTestTemplate: inside range .TestCases the dot is a TestCaseData,
\* which has no field Function, so the execution fails at the first case.
executeTestifyLayout(data) ==
    IF Len(data.TestCases) > 0
    THEN RenderError("failed to execute template")
    ELSE Rendered(data.TestName, "fluent", <<>>, <<>>)

\* benchmarkTestTemplate
executeBenchmark(data) ==
    Rendered("Benchmark" \o data.Function.Name, "benchmark", <<>>,
        [i \in 1..Len(data.Function.Parameters) |->
            generateTestValue(data.Function.Parameters[i].Type, "positive")]
        \o ReceiverText(data.Function))

\* tmpl.Execute of the built-in template of the name
Execute(templateName, data) ==
    CASE templateName = "testify_test" -> executeTestifyLayout(data)
      [] templateName = "benchmark_test" -> executeBenchmark(data)
      [] templateName \in {"function_test", "table_test", "method_test", "error_test"} ->
            IF data.TableDriven THEN executeTableLayout(data) ELSE executeSequentialLayout(data)
      [] OTHER -> RenderError("template not found: " \o templateName)

\* TemplateEngine.GenerateTest of the built-in templates
TemplateGenerateTest(function, style, tableStyle) ==
    Execute(selectTemplate(function, style, tableStyle),
            buildTemplateData(function, style, tableStyle))

-----------------------------------------------------------------------------
(* Test generator: the content of one test file *)

\* removeDuplicateStrings
RECURSIVE removeDuplicateStrings(_)
removeDuplicateStrings(slice) ==
    IF slice = <<>> THEN <<>>
    ELSE LET rest == removeDuplicateStrings(SubSeq(slice, 1, Len(slice) - 1))
             item == slice[Len(slice)]
         IN  IF item \in Range(rest) THEN rest ELSE Append(rest, item)

\* The loop of TestGenerator.generateImports over the functions: "context"
\* once for every function with a parameter of a type that mentions
\* context.Context.
RECURSIVE contextImports(_)
contextImports(functions) ==
    IF functions = <<>> THEN <<>>
    ELSE (IF \E i \in 1..Len(Head(functions).Parameters) :
                 StrContains(Head(functions).Parameters[i].Type, "context.Context")
          THEN <<"context">> ELSE <<>>)
         \o contextImports(Tail(functions))

\* TestGenerator.generateImports
generateImports(functions, opts) ==
    removeDuplicateStrings(
        <<"testing">>
        \o (IF opts.TemplateStyle = "testify"
            THEN <<"github.com/stretchr/testify/assert">>
                 \o (IF opts.GenerateMocks THEN <<"github.com/stretchr/testify/mock">> ELSE <<>>)
            ELSE <<>>)
        \o contextImports(functions))

\* One iteration of the loop of generateTestFileContent: the parts and the
\* test cases it appends, its testData and testContent, and the random
\* source afterwards.
generateTestsOf(function, existingTests, opts, r) ==
    LET testName == "Test" \o function.Name
        test == TemplateGenerateTest(function, opts.TemplateStyle, opts.TableDriven)
        bench == TemplateGenerateTest(function, "benchmark", FALSE)
        withBench == opts.GenerateBenchmarks /\ bench.err = Nil
        Tests(data) ==
            IF testName \in existingTests /\ ~opts.Overwrite
            THEN [parts |-> <<>>, testCases |-> <<>>, testData |-> <<>>,
                  testContent |-> RenderError("skipped"), rand |-> r]
            ELSE IF data.err # Nil \/ test.err # Nil
            THEN [parts |-> <<>>, testCases |-> <<>>, testData |-> data.testSet.TestCases,
                  testContent |-> test, rand |-> data.rand]
            ELSE [parts |-> <<test>> \o (IF withBench THEN <<bench>> ELSE <<>>),
                  testCases |-> [i \in 1..Len(data.testSet.TestCases) |->
                                    UnitTestCase(function, data.testSet.TestCases[i], opts)]
                                \o (IF withBench THEN <<BenchmarkCase(function)>> ELSE <<>>),
                  testData |-> data.testSet.TestCases,
                  testContent |-> test, rand |-> data.rand]
    IN  Tests(GenerateTestData(function, opts.MaxTestCases, r))

\* extractFunction: what the generator reads of the *models.Function.
RenderFunction(name, receiver, params, returnTypes) ==
    [Name |-> name, File |-> "shape/shape.go", Package |-> "shape",
     Parameters |-> params, ReturnTypes |-> returnTypes,
     HasErrorReturn |-> \E i \in 1..Len(returnTypes) : returnTypes[i] = "error",
     IsMethod |-> receiver # "", ReceiverType |-> receiver,
     IsTestable |-> TRUE, Dependencies |-> <<>>, CallsExternal |-> FALSE]

\* The uncovered functions a source file can hold: free functions and
\* methods, two of them of one name, with no, one and two parameters, with
\* and without an error result, of plain and of imported types.
RenderFunctions ==
    { RenderFunction("Area", "", <<Param("w", "int"), Param("h", "int")>>, <<"int">>),
      RenderFunction("Name", "Circle", <<>>, <<"string">>),
      RenderFunction("Name", "Square", <<>>, <<"string">>),
      RenderFunction("ParseSize", "", <<Param("s", "string")>>, <<"int", "error">>),
      RenderFunction("Fetch", "", <<Param("ctx", "context.Context")>>, <<"error">>),
      RenderFunction("Draw", "Circle", <<Param("ctx", "context.Context"), Param("w", "io.Writer")>>,
                     <<"error">>) }

MaxFunctions == 2   \* uncovered functions of the source file

\* The options of a run: --template-style, --table-driven, --generate-mocks,
\* --benchmarks and --max-cases.
RenderOptionSets ==
    [TemplateStyle : {"standard", "testify", "table"},
     TableDriven : BOOLEAN,
     GenerateMocks : BOOLEAN,
     GenerateBenchmarks : BOOLEAN,
     Overwrite : {FALSE},
     MaxTestCases : {RunMaxCases}]

NoContent == [imports |-> <<>>, parts |-> <<>>, testCases |-> <<>>]

\* generateTestFile has found no test file at the path: existingTests is
\* empty.  The functions of the group are distinct declarations of the file.
RenderInit ==
    /\ rpc = "header"
    /\ renderOptions \in RenderOptionSets
    /\ renderFunctions \in {fs \in UNION {[1..n -> RenderFunctions] : n \in 1..MaxFunctions} :
                               \A i, j \in DOMAIN fs : i # j => fs[i] # fs[j]}
    /\ renderRand = RunSeed
    /\ renderLoop = <<>>
    /\ rendered = NoContent

\* generateTestFileContent: the package clause and the import block.
RenderHeader ==
    /\ rpc = "header"
    /\ rendered' = [rendered EXCEPT !.imports = generateImports(renderFunctions, renderOptions)]
    /\ rpc' = "loop"
    /\ UNCHANGED <<renderOptions, renderFunctions, renderRand, renderLoop>>
    /\ UNCHANGED <<analysisVars, validationVars, parserVars, dataVars, mockVars, generateVars,
                 valueVars, complexityVars>>

\* generateTestFileContent: the loop body for the next function.
RenderTest ==
    /\ rpc = "loop"
    /\ Len(renderLoop) < Len(renderFunctions)
    /\ LET Appended(made) ==
               /\ rendered' = [rendered EXCEPT !.parts = @ \o made.parts,
                                               !.testCases = @ \o made.testCases]
               /\ renderLoop' = Append(renderLoop, [testData |-> made.testData,
                                                    testContent |-> made.testContent])
               /\ renderRand' = made.rand
       IN  Appended(generateTestsOf(renderFunctions[Len(renderLoop) + 1], {},
                                    renderOptions, renderRand))
    /\ UNCHANGED <<rpc, renderOptions, renderFunctions>>
    /\ UNCHANGED <<analysisVars, validationVars, parserVars, dataVars, mockVars, generateVars,
                 valueVars, complexityVars>>

\* generateTestFileContent: the return after the loop.
RenderReturn ==
    /\ rpc = "loop"
    /\ Len(renderLoop) = Len(renderFunctions)
    /\ rpc' = "returned"
    /\ UNCHANGED <<renderOptions, renderFunctions, renderRand, renderLoop, rendered>>
    /\ UNCHANGED <<analysisVars, validationVars, parserVars, dataVars, mockVars, generateVars,
                 valueVars, complexityVars>>

-----------------------------------------------------------------------------
(* Specifications *)

AnalysisIdle ==
    /\ pc = "idle"
    /\ files = <<>>
    /\ unparseable = {}
    /\ profile = NoProfile
    /\ packages = <<>>
    /\ matched = <<>>
    /\ uncovered = {}
    /\ summary = EmptySummary
    /\ err = Nil

ParserIdle ==
    /\ ppc = "idle"
    /\ profileText = [readable |-> FALSE, lines |-> <<>>]
    /\ parsed = NotParsed
    /\ validateErr = NotValidated

DataIdle ==
    /\ dpc = "idle"
    /\ dataTodo = <<>>
    /\ maxTestCases = 0
    /\ rand = Rand(<<0>>)
    /\ testData = <<>>

GenerateIdle ==
    /\ gpc = "idle"
    /\ tgOptions = [ProjectPath |-> ""]
    /\ tgProject = [UncoveredFunctions |-> <<>>]
    /\ tgTodo = {}
    /\ tgRand = Rand(<<0>>)
    /\ tgWrites = <<>>
    /\ tgOutput = <<>>
    /\ tgMocks = <<>>
    /\ tgResult = NoResult
    /\ tgReturn = NotReturned

MockIdle ==
    /\ mpc = "idle"
    /\ mockRequest = [interfaceType |-> "", file |-> SourceFile("unreadable", <<>>)]
    /\ mockInterface = NotLookedUp
    /\ generatedMock = NoMock

ValueIdle ==
    /\ ipc = "idle"
    /\ intRequest = [strategy |-> "", goType |-> "", rand |-> Rand(<<0>>)]
    /\ intResult = <<>>

ComplexityIdle ==
    /\ cpc = "idle"
    /\ funcBody = <<>>
    /\ complexity = 0

RenderIdle ==
    /\ rpc = "idle"
    /\ renderOptions = [TemplateStyle |-> ""]
    /\ renderFunctions = <<>>
    /\ renderRand = Rand(<<0>>)
    /\ renderLoop = <<>>
    /\ rendered = <<>>

ValidationIdle ==
    /\ vpc = "idle"
    /\ op = "none"
    /\ generatedFiles = <<>>
    /\ validationResult = NewValidationResult
    /\ stages = <<>>
    /\ execRun = NotRun

\* One AnalyzeProject run.
Init ==
    AnalysisInit /\ ValidationIdle /\ ParserIdle /\ DataIdle /\ MockIdle /\ GenerateIdle
    /\ ValueIdle /\ ComplexityIdle /\ RenderIdle

Next == ParseSourceFiles \/ BuildAnalysisResult \/ CalculateSummaryStatistics

Spec == Init /\ [][Next]_vars

\* One TestValidator run.
InitValidate ==
    ValidationInit /\ AnalysisIdle /\ ParserIdle /\ DataIdle /\ MockIdle /\ GenerateIdle
    /\ ValueIdle /\ ComplexityIdle /\ RenderIdle

NextValidate ==
    \/ ValidateSyntax
    \/ GoBuild
    \/ GoTestCompile
    \/ ValidateExecution
    \/ RunQualityChecks
    \/ ValidateIndividualTest

SpecValidate == InitValidate /\ [][NextValidate]_vars

\* One ParseProfile and ValidateProfile, as AnalyzeProject calls them.
InitParse ==
    ParserInit /\ AnalysisIdle /\ ValidationIdle /\ DataIdle /\ MockIdle /\ GenerateIdle
    /\ ValueIdle /\ ComplexityIdle /\ RenderIdle

NextParse == RunParseProfile \/ RunValidateProfile

SpecParse == InitParse /\ [][NextParse]_vars

\* One DataGenerator, called for the functions of a source file.
InitData ==
    DataInit /\ AnalysisIdle /\ ValidationIdle /\ ParserIdle /\ MockIdle /\ GenerateIdle
    /\ ValueIdle /\ ComplexityIdle /\ RenderIdle

NextData == RunGenerateTestData

SpecData == InitData /\ [][NextData]_vars

\* The MockGenerator's work on one interface type.
InitMock ==
    MockInit /\ AnalysisIdle /\ ValidationIdle /\ ParserIdle /\ DataIdle /\ GenerateIdle
    /\ ValueIdle /\ ComplexityIdle /\ RenderIdle

NextMock == ParseInterface \/ GenerateMockFile

SpecMock == InitMock /\ [][NextMock]_vars

\* A run of Generate.
InitGenerate ==
    GenerateInit /\ AnalysisIdle /\ ValidationIdle /\ ParserIdle /\ DataIdle /\ MockIdle
    /\ ValueIdle /\ ComplexityIdle /\ RenderIdle

NextGenerate ==
    \/ Initialize
    \/ RunGenerateMocks
    \/ GroupFunctions
    \/ GenerateTestFile
    \/ FinishGenerateTests
    \/ ValidateAndReturn

SpecGenerate == InitGenerate /\ [][NextGenerate]_vars

\* One generateValueForType call for an integer parameter.
InitValue ==
    ValueInit /\ AnalysisIdle /\ ValidationIdle /\ ParserIdle /\ DataIdle /\ MockIdle
    /\ GenerateIdle /\ ComplexityIdle /\ RenderIdle

NextValue == RunGenerateValue

SpecValue == InitValue /\ [][NextValue]_vars

\* One calculateComplexity call.
InitComplexity ==
    ComplexityInit /\ AnalysisIdle /\ ValidationIdle /\ ParserIdle /\ DataIdle /\ MockIdle
    /\ GenerateIdle /\ ValueIdle /\ RenderIdle

NextComplexity == RunCalculateComplexity

SpecComplexity == InitComplexity /\ [][NextComplexity]_vars

\* One generateTestFileContent call for a source file without a test file.
InitRender ==
    RenderInit /\ AnalysisIdle /\ ValidationIdle /\ ParserIdle /\ DataIdle /\ MockIdle
    /\ GenerateIdle /\ ValueIdle /\ ComplexityIdle

NextRender == RenderHeader \/ RenderTest \/ RenderReturn

SpecRender == InitRender /\ [][NextRender]_vars

-----------------------------------------------------------------------------
(* Properties of the coverage mapper *)

IsSuffix(s, t) == Len(s) <= Len(t) /\ SubSeq(t, Len(t) - Len(s) + 1, Len(t)) = s

Analysed == pc \in {"summary", "done"}

\* The blocks applyCoverageData handed to the file at `path`.
AppliedBlocks(path) ==
    IF matched[path] = NoMatch THEN <<>>
    ELSE buildFileBlocks(<<>>, profile)[matched[path]]

\* Sum of NumStmts over the blocks of `blocks` at the indices I.
StmtsAt(blocks, I) == SumFn(I, [i \in I |-> blocks[i].NumStmts])

\* C1: for every file matched to coverage data, CoveredLines + UncoveredLines
\* is the sum of NumStmts over the profile blocks reported for the file (the
\* blocks whose reported path ends with the variant that matched), each block
\* once, and CoveredLines is that sum over the blocks with Count > 0.
C1_FileTotalsAreBlockSums ==
    Analysed =>
        \A f \in AllFiles(packages) :
            matched[f.Path] # NoMatch =>
                LET reported == {i \in DOMAIN profile : IsSuffix(matched[f.Path], profile[i].FileName)}
                    executed == {i \in reported : profile[i].Count > 0}
                IN  /\ f.CoveredLines + f.UncoveredLines = StmtsAt(profile, reported)
                    /\ f.CoveredLines = StmtsAt(profile, executed)

\* C2: when a suffix variant of two or more segments and the bare file name
\* are both keys of the block map, the file is matched through the longest
\* variant that is a key, never through the bare file name.
C2_LongestSuffixWins ==
    Analysed =>
        \A f \in AllFiles(packages) :
            LET keys == DOMAIN buildFileBlocks(<<>>, profile)
                hits == {v \in Range(generatePathVariants(f.Path)) : v \in keys}
            IN  ((\E v \in hits : Len(v) >= 2) /\ <<f.Path[Len(f.Path)]>> \in hits) =>
                    /\ matched[f.Path] \in hits
                    /\ \A v \in hits : Len(v) <= Len(matched[f.Path])

\* The blocks handed to the function's file that lie inside the function.
ContainedIn(fn, blocks) ==
    {i \in DOMAIN blocks : blocks[i].StartLine >= fn.StartLine /\ blocks[i].EndLine <= fn.EndLine}

FunctionsOf(pkgs) == UNION {Range(f.Functions) : f \in AllFiles(pkgs)}

\* What the analysis records about a function's coverage.
CoverageState(fn) == <<fn.Coverage, fn.IsCovered>>

\* C3: a function with no coverage block inside its span ends the analysis
\* in a state that differs from that of a function whose contained blocks
\* all have execution count 0.
C3_UnknownDiffersFromZero ==
    pc = "done" =>
        \A fn1, fn2 \in FunctionsOf(packages) :
            LET b1 == AppliedBlocks(fn1.File)
                b2 == AppliedBlocks(fn2.File)
            IN  (/\ ContainedIn(fn1, b1) = {}
                 /\ ContainedIn(fn2, b2) # {}
                 /\ \A i \in ContainedIn(fn2, b2) : b2[i].Count = 0)
                => CoverageState(fn1) # CoverageState(fn2)

\* C4: a function's coverage comes from the blocks fully inside its span,
\* and from no other: coverage * total = covered * 100 with total and covered
\* the statement sums over those blocks, IsCovered iff one of them has
\* Count > 0; all executed gives 100, none executed gives 0 and not covered;
\* blocks (3-5, 2 stmts, count 1) and (6-8, 1 stmt, count 0) in a function
\* spanning 3-8 give 2 of 3 statements, 200/3 percent, covered.
C4_FunctionCoverageFromContainedBlocks ==
    Analysed =>
        \A fn \in FunctionsOf(packages) :
            LET blocks == AppliedBlocks(fn.File)
                inside == ContainedIn(fn, blocks)
                hit == {i \in inside : blocks[i].Count > 0}
                total == StmtsAt(blocks, inside)
                covered == StmtsAt(blocks, hit)
            IN  blocks # <<>> =>
                    /\ total > 0 => fn.Coverage[1] * total = covered * 100 * fn.Coverage[2]
                    /\ fn.IsCovered <=> hit # {}
                    /\ (inside # {} /\ hit = inside) => fn.Coverage = <<100, 1>> /\ fn.IsCovered
                    /\ (inside # {} /\ hit = {}) => fn.Coverage = <<0, 1>> /\ ~fn.IsCovered
                    /\ (/\ fn.StartLine = 3 /\ fn.EndLine = 8
                        /\ [i \in DOMAIN blocks |->
                               <<blocks[i].StartLine, blocks[i].EndLine, blocks[i].NumStmts, blocks[i].Count>>]
                           = << <<3, 5, 2, 1>>, <<6, 8, 1, 0>> >>)
                       => total = 3 /\ covered = 2 /\ fn.Coverage = <<200, 3>> /\ fn.IsCovered

\* C4 witness: the analysis is done and a function spanning 3-8 was given
\* exactly the blocks (3-5, 2 stmts, count 1) and (6-8, 1 stmt, count 0).
C4_Witness ==
    /\ pc = "done"
    /\ \E fn \in FunctionsOf(packages) :
          LET blocks == AppliedBlocks(fn.File)
          IN  /\ fn.StartLine = 3 /\ fn.EndLine = 8
              /\ Len(blocks) = 2
              /\ blocks[1].StartLine = 3 /\ blocks[1].EndLine = 5
              /\ blocks[1].NumStmts = 2 /\ blocks[1].Count = 1
              /\ blocks[2].StartLine = 6 /\ blocks[2].EndLine = 8
              /\ blocks[2].NumStmts = 1 /\ blocks[2].Count = 0
              /\ fn.Coverage = <<200, 3>>
              /\ fn.IsCovered

\* The module path the profile prefixes to a file's path inside the project.
ModulePath == <<"m">>

\* C5: when every reported profile path is the path of exactly one analysed
\* file, Summary.CoveredLines / Summary.TotalLines is the profile's own
\* ratio of executed statements to statements.
C5_OverallCoverageIsProfileCoverage ==
    (/\ pc = "done"
     /\ profile # NoProfile
     /\ \A i \in DOMAIN profile :
           Cardinality({f \in AllFiles(packages) : profile[i].FileName = ModulePath \o f.Path}) = 1)
    => LET all == DOMAIN profile
           executed == {i \in all : profile[i].Count > 0}
       IN  summary.CoveredLines * StmtsAt(profile, all)
               = StmtsAt(profile, executed) * summary.TotalLines

\* C10: when a source file fails to parse, AnalyzeProject goes on without
\* it: no error is returned and every parseable file is analysed.
C10_ParseFailureSkipsTheFile ==
    pc # "parse" =>
        /\ pc # "failed"
        /\ err = Nil
        /\ {f.Path : f \in AllFiles(packages)} = Range(files) \ unparseable

-----------------------------------------------------------------------------
(* Properties of the validation pipeline *)

Returned == vpc = "done" /\ op = "ValidateTests"

\* C6: every run of ValidateTests executes the quality stage over the files
\* that exist, whatever the earlier stages found: the result carries the
\* quality warnings of every file that parses.
C6_QualityStageAlwaysRuns ==
    Returned =>
        /\ \E i \in DOMAIN stages : stages[i] = "quality"
        /\ validationResult.Warnings = runQualityChecks(generatedFiles, NewValidationResult).Warnings

StageOrder == <<"syntax", "build", "test build", "exec", "quality">>

Started(stage) == \E i \in DOMAIN stages : stages[i] = stage

\* C7: ValidateTests runs its stages in order and gates them: the build
\* starts only when every file passed the syntax stage, the test build only
\* when the project build succeeded, the execution only when the whole build
\* stage succeeded; after a failure of stage 1 or 2 nothing else runs.
C7_StagesAreGated ==
    op = "ValidateTests" =>
        /\ stages = SubSeq(StageOrder, 1, Len(stages))
        /\ Started("build") =>
              /\ \A i \in DOMAIN generatedFiles : generatedFiles[i].disk = "ok"
              /\ validationResult.SyntaxErrors = <<>>
        /\ Started("test build") =>
              \A i \in DOMAIN validationResult.CompileErrors :
                  validationResult.CompileErrors[i][1] # "Compilation failed"
        /\ Started("exec") => validationResult.CompileErrors = <<>>
        /\ validationResult.SyntaxErrors # <<>> => stages = <<"syntax">> /\ vpc = "done"
        /\ validationResult.CompileErrors # <<>> =>
              /\ vpc = "done"
              /\ stages \in {<<"syntax", "build">>, <<"syntax", "build", "test build">>}

\* C7 witness: a run that stopped at a failed test build.
C7_Witness ==
    /\ Returned
    /\ stages = <<"syntax", "build", "test build">>
    /\ validationResult.CompileErrors # <<>>

\* The execution stage saw a failing test.
SawFailure ==
    /\ execRun.ran
    /\ (execRun.err \/ \E i \in DOMAIN execRun.output : execRun.output[i] = FailLine)

\* C8: when the execution stage sees a failing test (a "--- FAIL:" line or
\* a failing exit status), the result is invalid, carries a runtime
\* diagnostic, and TestsRun = TestsPassed + TestsFailed with one failure
\* counted per "--- FAIL:" line.
C8_FailingTestInvalidates ==
    SawFailure =>
        /\ ~validationResult.Valid
        /\ validationResult.RuntimeErrors # <<>>
        /\ validationResult.TestsRun = validationResult.TestsPassed + validationResult.TestsFailed
        /\ validationResult.TestsFailed =
               Cardinality({i \in DOMAIN execRun.output : execRun.output[i] = FailLine})

\* C8 witness: the test run exited with success but printed a "--- FAIL:"
\* line, and ValidateTests has returned.
C8_Witness ==
    /\ Returned
    /\ execRun.ran /\ ~execRun.err
    /\ \E i \in DOMAIN execRun.output : execRun.output[i] = FailLine

NoErrors(r) == r.SyntaxErrors = <<>> /\ r.CompileErrors = <<>> /\ r.RuntimeErrors = <<>>

\* C9: when ValidateTests returns, Valid holds iff SyntaxErrors,
\* CompileErrors and RuntimeErrors are all empty; and a step that adds
\* warnings leaves Valid as it was.
C9_ValidIffNoErrors ==
    /\ [](Returned => (validationResult.Valid <=> NoErrors(validationResult)))
    /\ [][(op' = "ValidateTests" /\ validationResult'.Warnings # validationResult.Warnings)
            => validationResult'.Valid = validationResult.Valid]_vars

\* C9 witness: ValidateTests returned a valid result that carries warnings.
C9_Witness ==
    /\ Returned
    /\ validationResult.Valid
    /\ validationResult.Warnings # <<>>

-----------------------------------------------------------------------------
(* Claims about the coverage profile parser *)

\* ParseProfile has returned, and it could open the file.
ParseReturned == ppc \in {"validate", "failed", "done"} /\ profileText.readable

\* The first line declares one of the three modes.
DeclaresMode(lines) ==
    /\ Len(lines) >= 1
    /\ TrimSpace(lines[1]) \in {ModePrefix \o mode : mode \in validModes}

\* C11: a profile whose first line does not declare set, count or atomic
\* (no mode line, or an unrecognised mode) fails the parse: ParseProfile
\* returns an error and no profile.
C11_UndeclaredModeFailsTheParse ==
    (ParseReturned /\ ~DeclaresMode(profileText.lines))
        => (parsed.err # Nil /\ parsed.profile = NoProfile)

IsInteger(s) == Atoi(s).ok

\* path:startLine.startCol,endLine.endCol numStmts count
WellFormedLine(line) ==
    LET parts == Fields(line)
        filePos == parts[1]
        n == Len(filePos)
        Piece(from, to) == SubSeq(filePos, from + 1, to - 1)
    IN  /\ Len(parts) = 3
        /\ \E colon \in 1..n :
              /\ filePos[colon] = ":"
              /\ \E dot1 \in (colon + 1)..n :
                    /\ filePos[dot1] = "."
                    /\ IsInteger(Piece(colon, dot1))
                    /\ \E comma \in (dot1 + 1)..n :
                          /\ filePos[comma] = ","
                          /\ IsInteger(Piece(dot1, comma))
                          /\ \E dot2 \in (comma + 1)..n :
                                /\ filePos[dot2] = "."
                                /\ IsInteger(Piece(comma, dot2))
                                /\ IsInteger(Piece(dot2, n + 1))
        /\ IsInteger(parts[2])
        /\ IsInteger(parts[3])

\* The block lines of a file: not the mode line, not blank, not a comment.
IsBlockLine(lines, i) ==
    LET line == TrimSpace(lines[i])
    IN  /\ ~(i = 1 /\ HasPrefix(line, ModePrefix))
        /\ line # <<>>
        /\ ~HasPrefix(line, <<"#">>)

MalformedAt(lines) ==
    {i \in 1..Len(lines) : IsBlockLine(lines, i) /\ ~WellFormedLine(lines[i])}

\* C12: if a block line is malformed, ParseProfile returns no profile, and
\* an error that names the 1-based number of the (first) offending line.
C12_MalformedLineFailsTheParse ==
    ParseReturned =>
        LET bad == MalformedAt(profileText.lines)
        IN  bad # {} => /\ parsed.profile = NoProfile
                        /\ parsed.err = "failed to parse line"
                        /\ parsed.line \in bad
                        /\ \A i \in bad : parsed.line <= i

\* A malformed third line, after a mode line and a comment.
C12_Witness ==
    /\ ParseReturned
    /\ DeclaresMode(profileText.lines)
    /\ Len(profileText.lines) = 3
    /\ ~IsBlockLine(profileText.lines, 2)
    /\ MalformedAt(profileText.lines) = {3}
    /\ parsed.line = 3

StartNotAfterEnd(block) ==
    \/ block.StartLine < block.EndLine
    \/ block.StartLine = block.EndLine /\ block.StartCol <= block.EndCol

WellFormedProfile(p) ==
    /\ p.Mode # <<>>
    /\ p.Mode \in validModes
    /\ Len(p.Blocks) >= 1
    /\ \A i \in 1..Len(p.Blocks) :
          /\ p.Blocks[i].FileName # <<>>
          /\ p.Blocks[i].StartLine > 0 /\ p.Blocks[i].EndLine > 0
          /\ StartNotAfterEnd(p.Blocks[i])
          /\ p.Blocks[i].NumStmts > 0
          /\ p.Blocks[i].Count >= 0

ValidateReturned == validateErr # NotValidated

\* C13: ValidateProfile returns nil exactly when the mode is one of the
\* three, there is a block, and every block has a path, positive lines,
\* start <= end (line, then column), statements > 0 and count >= 0; it
\* never changes the profile.
C13_ValidateProfileAcceptsExactlyWellFormed ==
    /\ [](ValidateReturned => (validateErr.msg = Nil <=> WellFormedProfile(parsed.profile[1])))
    /\ [][validateErr' # validateErr => parsed' = parsed]_vars

\* A profile rejected only for the order of the columns on one line.
C13_Witness ==
    /\ ValidateReturned
    /\ validateErr.msg = "start column is greater than end column on same line"
    /\ validateErr.index = 1
    /\ Len(parsed.profile[1].Blocks) = 2

-----------------------------------------------------------------------------
(* Claims about the test data generator *)

\* The function's name contains "divide" (in any case) and one of its
\* parameters is named as a divisor.
IsDivideWithDivisor(function) ==
    /\ StrContains(ToLower(function.Name), "divide")
    /\ \E i \in 1..Len(function.Parameters) :
          StrContains(ToLower(function.Parameters[i].Name), "divisor")

CasesOf(call) == {call.testSet.TestCases[k] : k \in 1..Len(call.testSet.TestCases)}

\* C15: for a function whose name contains "divide" and that has a
\* divisor-named parameter, GenerateTestData produces a case of the negative
\* strategy, and that case expects an error.
C15_DivideGetsNegativeCaseExpectingError ==
    \A i \in 1..Len(testData) :
        (IsDivideWithDivisor(testData[i].function) /\ maxTestCases >= 1)
            => \E case \in CasesOf(testData[i]) :
                  case.Strategy = StrategyNegative /\ case.ExpectError

StringParams(function) ==
    {function.Parameters[i].Name : i \in {j \in 1..Len(function.Parameters) :
                                              function.Parameters[j].Type = "string"}}

\* C16: under the zero strategy a string parameter gets the empty string,
\* with the literal "", whatever the state of the random source and
\* whatever was generated before; generating it draws nothing.
C16_ZeroStringIsEmpty ==
    /\ \A i \in 1..Len(testData) :
          \A case \in CasesOf(testData[i]) :
              case.Strategy = StrategyZero =>
                  \A name \in StringParams(testData[i].function) :
                      /\ case.Inputs[name] = StringValue("")
                      /\ case.InputStrings[name] = "\"\""
    /\ dpc # "idle" =>
          generateValueForType("string", StrategyZero, rand) = Gen(StringValue(""), "\"\"", rand)

\* The second call of a DataGenerator, with the random source advanced: the
\* zero case has the empty string where the positive case has a drawn one.
C16_Witness ==
    /\ Len(testData) = 2
    /\ testData[2].function.Name = "Greet"
    /\ testData[2].before.next = 2
    /\ \E zero \in CasesOf(testData[2]), positive \in CasesOf(testData[2]) :
          /\ zero.Strategy = StrategyZero
          /\ zero.Inputs["name"].s = ""
          /\ positive.Strategy = StrategyPositive
          /\ positive.Inputs["name"].s # ""

\* The interface a mock was generated for, and the stand-ins of the mock.
MockGenerated == mpc = "done"

StandIns == generatedMock[1].Content.Methods

\* The expressions that read the pre-programmed value number index as a
\* value of the declared type: the value itself for interface{}, otherwise
\* one assertion to the type, or the accessor whose result is that type.
ReturnExpressions(type, index) ==
    IF type = "interface{}" THEN {"args.Get(" \o Itoa(index) \o ")"}
    ELSE {"args.Get(" \o Itoa(index) \o ").(" \o type \o ")"} \cup
         (IF type = "string" THEN {"args.String(" \o Itoa(index) \o ")"} ELSE {}) \cup
         (IF type = "int" THEN {"args.Int(" \o Itoa(index) \o ")"} ELSE {}) \cup
         (IF type = "bool" THEN {"args.Bool(" \o Itoa(index) \o ")"} ELSE {}) \cup
         (IF type = "error" THEN {"args.Error(" \o Itoa(index) \o ")"} ELSE {})

CoercesOnce(method, standIn) ==
    LET n == Len(method.Returns)
        all == UNION {ReturnExpressions(method.Returns[i].Type, i - 1) : i \in 1..n}
    IN  \E exprs \in [1..n -> all] :
            /\ \A i \in 1..n : exprs[i] \in ReturnExpressions(method.Returns[i].Type, i - 1)
            /\ standIn.Return = Join(exprs, ", ")

\* C17: in a generated mock, the return expression of every stand-in reads,
\* for each declared result at position i, the i-th pre-programmed value as
\* a value of exactly the declared type: with one coercion, and with none
\* for interface{}.
C17_ReturnCoercesOnceToDeclaredType ==
    MockGenerated =>
        \A k \in 1..Len(StandIns) :
            CoercesOnce(generatedMock[1].Interface.Methods[k], StandIns[k])

\* The type as the interface's source writes it.
RECURSIVE TypeText(_)
TypeText(expr) ==
    CASE expr.kind = "Ident" -> expr.name
      [] expr.kind = "StarExpr" -> "*" \o TypeText(expr.x[1])
      [] expr.kind = "ArrayType" -> "[]" \o TypeText(expr.x[1])
      [] expr.kind = "MapType" -> "map[" \o TypeText(expr.x[1]) \o "]" \o TypeText(expr.x[2])
      [] expr.kind = "SelectorExpr" -> TypeText(expr.x[1]) \o "." \o expr.name
      [] expr.kind = "InterfaceType" -> "interface{}"
      [] expr.kind = "Ellipsis" -> "..." \o TypeText(expr.x[1])
      [] OTHER -> "func"

\* The methods an interface requires: those it declares and those its
\* embedded interfaces contribute.
RECURSIVE RequiredMethods(_)
RequiredMethods(list) ==
    IF list = <<>> THEN <<>>
    ELSE (IF Head(list).isFunc THEN <<Head(list)>> ELSE Head(list).methods)
             \o RequiredMethods(Tail(list))

\* The types of a parameter or result list, one for each name (one for an
\* unnamed field), and the declared names ("" for an unnamed one).
RECURSIVE FieldTypes(_)
FieldTypes(fields) ==
    IF fields = <<>> THEN <<>>
    ELSE LET field == Head(fields)
             count == IF Len(field.Names) = 0 THEN 1 ELSE Len(field.Names)
         IN  [i \in 1..count |-> TypeText(field.Type)] \o FieldTypes(Tail(fields))

RECURSIVE FieldNames(_)
FieldNames(fields) ==
    IF fields = <<>> THEN <<>>
    ELSE (IF Len(Head(fields).Names) = 0 THEN <<"">> ELSE Head(fields).Names)
             \o FieldNames(Tail(fields))

\* The stand-in mocks the required method: same name, parameter types and
\* result types in order, declared parameter names kept, unnamed ones
\* named arg<k>, all names distinct, and the signature written from them.
StandsInFor(mocked, standIn, required) ==
    LET types == FieldTypes(required.Params)
        names == FieldNames(required.Params)
        results == FieldTypes(required.Results)
        params == [i \in 1..Len(types) |->
                       (IF names[i] = "" THEN "arg" \o Itoa(i - 1) ELSE names[i]) \o " " \o types[i]]
    IN  /\ standIn.Name = required.Names[1]
        /\ mocked.Name = standIn.Name
        /\ [i \in 1..Len(mocked.Parameters) |-> mocked.Parameters[i].Type] = types
        /\ [i \in 1..Len(mocked.Returns) |-> mocked.Returns[i].Type] = results
        /\ \A i \in 1..Len(types) :
              mocked.Parameters[i].Name = IF names[i] = "" THEN "arg" \o Itoa(i - 1) ELSE names[i]
        /\ \A i, j \in 1..Len(types) :
              i # j => mocked.Parameters[i].Name # mocked.Parameters[j].Name
        /\ standIn.Signature =
              "(" \o Join(params, ", ") \o ")" \o
              (IF Len(results) = 0 THEN ""
               ELSE IF Len(results) = 1 THEN " " \o results[1]
               ELSE " (" \o Join(results, ", ") \o ")")

\* The declaration the mock was generated from.
MockedDeclaration == mockRequest.file.decls[Len(mockRequest.file.decls)]

\* C18: the mock of an interface that was found has exactly one stand-in
\* for every method the interface requires, declared directly or through
\* an embedded interface, with its name, parameter types and result types;
\* unnamed parameters are named arg<k> and a method's parameter names are
\* distinct.
C18_OneStandInPerRequiredMethod ==
    MockGenerated =>
        LET required == RequiredMethods(MockedDeclaration.Methods)
            mocked == generatedMock[1].Interface.Methods
        IN  /\ \A r \in 1..Len(required) :
                  \E k \in 1..Len(StandIns) :
                      /\ StandsInFor(mocked[k], StandIns[k], required[r])
                      /\ \A other \in 1..Len(StandIns) :
                            StandIns[other].Name = StandIns[k].Name => other = k
            /\ \A k \in 1..Len(StandIns) :
                  \E r \in 1..Len(required) : StandIns[k].Name = required[r].Names[1]

\* A run of Generate has returned a result.
RunReturned == gpc = "returned" /\ tgReturn.result # NoResult

FileGroups == groupFunctionsByFile(tgProject.UncoveredFunctions, tgOptions)

GeneratedPaths(result) == {result.GeneratedFiles[i].Path : i \in 1..Len(result.GeneratedFiles)}

\* generateTests with the file groups taken in this order.
RECURSIVE GenerateTestsIn(_, _, _, _, _, _)
GenerateTestsIn(order, opts, project, writes, r, result) ==
    IF order = <<>> THEN result
    ELSE LET functions == groupFunctionsByFile(project.UncoveredFunctions, opts)[Head(order)]
             generated == generateTestFile(Head(order), functions, opts, project, writes, r)
             added == addGeneratedFile(result, Head(order), functions, generated, opts.Verbose)
         IN  GenerateTestsIn(Tail(order), opts, project, writes \o generated.writes,
                             generated.rand, added.result)

\* The result of the same run without DryRun on the same project where
\* every write succeeds, for one order of the mocks and of the file groups.
WetRun(opts, project, mockOrder, fileOrder) ==
    LET wetOpts == [opts EXCEPT !.DryRun = FALSE]
        wetProject == [project EXCEPT !.unwritable = {}]
        mockWrites == IF wetOpts.GenerateMocks
                      THEN generateMocks(wetProject.UncoveredFunctions, wetOpts, wetProject,
                                         mockOrder).writes
                      ELSE <<>>
    IN  GenerateTestsIn(fileOrder, wetOpts, wetProject, mockWrites, RunSeed,
                        NewGenerationResult(wetOpts))

\* C14: a run with DryRun makes no directory and writes no file, of a test
\* or of a mock, and returns the TestsGenerated and the set of
\* GeneratedFiles paths that the run without DryRun returns on the same
\* project when all its writes succeed.
C14_DryRunWritesNothingAndReportsTheSame ==
    /\ tgOptions.DryRun => tgWrites = <<>>
    /\ (RunReturned /\ tgOptions.DryRun) =>
          \A mockOrder \in Orders({tgMocks[i].Interface.Name : i \in 1..Len(tgMocks)}),
             fileOrder \in Orders(DOMAIN FileGroups) :
              LET wet == WetRun(tgOptions, tgProject, mockOrder, fileOrder)
              IN  /\ wet.TestsGenerated = tgReturn.result.TestsGenerated
                  /\ GeneratedPaths(wet) = GeneratedPaths(tgReturn.result)

\* A dry run with two mocks and two generated files, on a project where
\* the other run writes mocks and tests.
C14_Witness ==
    /\ RunReturned
    /\ tgOptions.DryRun
    /\ tgOptions.GenerateMocks
    /\ Len(tgMocks) = 2
    /\ Cardinality(GeneratedPaths(tgReturn.result)) = 2
    /\ tgReturn.result.TestsGenerated > 2
    /\ tgProject.unwritable # {}

\* The source file's test file was generated without regard to the other
\* files: what generateTestFile makes of it on the disk as the run found it.
GeneratedAlone(filePath) ==
    generateTestFile(filePath, FileGroups[filePath], tgOptions, tgProject, <<>>, RunSeed)

\* The mocks whose own directory can be made and whose own file can be
\* written.
WritableMocks ==
    {i \in 1..Len(tgMocks) :
         LET fullPath == PathJoin(tgOptions.ProjectPath, tgMocks[i].FilePath)
         IN  fullPath \notin tgProject.unwritable /\ Dir(fullPath) \notin tgProject.unwritable}

\* C19: no failure on one item aborts a run whose templates loaded.
\* Generate returns a result and a nil error; a failure skips the item it
\* is about and nothing else: every other file group is generated, every
\* other function of a generated file has its test cases, and every other
\* mock is written.
C19_PerItemFailureSkipsOnlyTheItem ==
    (gpc = "returned" /\ tgProject.templatesLoad) =>
        /\ tgReturn.err = Nil
        /\ tgReturn.result # NoResult
        /\ \A filePath \in DOMAIN FileGroups :
              GeneratedAlone(filePath).file # NoFile =>
                  \E i \in 1..Len(tgReturn.result.GeneratedFiles) :
                      LET file == tgReturn.result.GeneratedFiles[i]
                      IN  /\ file.Path = getTestFilePath(filePath)
                          /\ \A k \in 1..Len(FileGroups[filePath]) :
                                LET function == FileGroups[filePath][k]
                                IN  GenerateTest(function, tgOptions.TemplateStyle, tgProject).err = Nil =>
                                        \E c \in 1..Len(file.TestCases) :
                                            file.TestCases[c].FunctionName = function.Name
        /\ (tgOptions.GenerateMocks /\ ~tgOptions.DryRun) =>
              \A i \in WritableMocks :
                  FileOp("WriteFile", PathJoin(tgOptions.ProjectPath, tgMocks[i].FilePath))
                      \in Range(tgWrites)

\* The entries of the result's Errors and Warnings.
Recorded == Range(tgReturn.result.Errors) \cup Range(tgReturn.result.Warnings)

IsRecorded(item) == \E entry \in Recorded : StrContains(entry, item)

\* The file groups whose test file could not be generated or written.
FailedFiles == {filePath \in DOMAIN FileGroups : GeneratedAlone(filePath).err # Nil}

\* The functions of generated files whose test was not rendered.
UnrenderedFunctions ==
    {function \in UNION {Range(FileGroups[filePath]) : filePath \in DOMAIN FileGroups} :
         /\ getTestFilePath(function.File) \in GeneratedPaths(tgReturn.result)
         /\ GenerateTest(function, tgOptions.TemplateStyle, tgProject).err # Nil}

\* The interface types the run looked up without getting an interface to
\* mock.
UnresolvedInterfaces ==
    IF ~tgOptions.GenerateMocks THEN {}
    ELSE {req.type : req \in {r \in Range(requestsOf(tgProject.UncoveredFunctions)) :
              parseInterface(r.type, tgProject.interfaces[r.type], tgOptions.ProjectPath).iface
                  = NoInterface}}

\* C20: whatever the verbose setting, the result a run returns names in
\* its Errors or Warnings every source file whose test file could not be
\* generated or written, every function whose test data or template
\* failed, and every interface for which no mock could be resolved.
C20_EverySkipIsRecorded ==
    RunReturned =>
        /\ \A filePath \in FailedFiles : IsRecorded(filePath)
        /\ \A function \in UnrenderedFunctions : IsRecorded(function.Name)
        /\ \A type \in UnresolvedInterfaces : IsRecorded(type)

\* C25: GenerateTestData returns normally (it does not panic) with at most
\* maxCases test cases, for every maxCases including 0 and negative values
\* and for functions with and without an error result; for maxCases >= 1 it
\* returns at least one case.
C25_GenerateTestDataReturnsAtMostMaxCases ==
    \A i \in 1..Len(testData) :
        /\ ~testData[i].panic
        /\ Len(testData[i].testSet.TestCases) <= maxTestCases
        /\ maxTestCases >= 1 => Len(testData[i].testSet.TestCases) >= 1

-----------------------------------------------------------------------------
(* Claims about integer values *)

\* The literals beyond 32 bits that a type can represent, among those the
\* generator writes.
WideLiteralsOf(goType) ==
    CASE goType \in {"int32", "rune"} -> {"-2147483648"}
      [] goType = "uint32" -> {"4294967295"}
      [] goType \in {"int", "int64"} ->
            {"-2147483648", "4294967295", "-9223372036854775808", "9223372036854775807"}
      [] goType \in {"uint", "uint64"} -> {"4294967295", "9223372036854775807"}
      [] OTHER -> {}

\* The value is within the representable range of the Go type.
InRangeOf(goType, v) ==
    IF v.s # "" THEN v.s \in WideLiteralsOf(goType)
    ELSE CASE goType = "int8" -> -128 <= v.n /\ v.n <= 127
           [] goType \in {"uint8", "byte"} -> 0 <= v.n /\ v.n <= 255
           [] goType = "int16" -> -32768 <= v.n /\ v.n <= 32767
           [] goType = "uint16" -> 0 <= v.n /\ v.n <= 65535
           [] goType \in {"uint32", "uint64", "uint"} -> 0 <= v.n
           [] OTHER -> TRUE

\* C28: for every integer parameter type the integer literal generated
\* under the positive (nominal), edge (boundary), zero and random strategies
\* is the literal of a value within the representable range of that type.
C28_IntegerLiteralWithinTypeRange ==
    (ipc = "done" /\ intRequest.strategy # StrategyNegative) =>
        /\ intResult[1].text = FormatInt(intResult[1].value)
        /\ InRangeOf(intRequest.goType, intResult[1].value)

-----------------------------------------------------------------------------
(* Claims about the complexity of a function *)

BranchingKinds ==
    {"IfStmt", "ForStmt", "RangeStmt", "SwitchStmt", "TypeSwitchStmt", "CaseClause",
     "SelectStmt", "CommClause"}

\* The number of branching constructs among the nodes and below them.
RECURSIVE BranchingConstructs(_)
BranchingConstructs(nodes) ==
    IF nodes = <<>> THEN 0
    ELSE (IF Head(nodes).kind \in BranchingKinds THEN 1 ELSE 0)
         + BranchingConstructs(Head(nodes).children) + BranchingConstructs(Tail(nodes))

\* C26: Complexity is one plus the number of branching constructs in the
\* body, each counted once: every conditional, loop (for and range), switch
\* and type switch, case clause, and select together with each of its
\* communication cases; it is never below 1.
C26_ComplexityCountsBranchingConstructs ==
    cpc = "done" =>
        /\ complexity = 1 + BranchingConstructs(funcBody)
        /\ complexity >= 1

-----------------------------------------------------------------------------
(* Claims about the profile paths behind a file's coverage *)

\* The profile paths that reported the blocks.
ReportedPaths(blocks) == {blocks[i].FileName : i \in DOMAIN blocks}

\* C29: the coverage blocks applied to a source file (from which its
\* CoverageBlocks, its file coverage and its functions' coverage are
\* computed) all come from a single reported profile path, also when two
\* profile paths share a base name or a suffix.
C29_BlocksFromOneProfilePath ==
    Analysed =>
        \A f \in AllFiles(packages) :
            matched[f.Path] # NoMatch =>
                /\ f.CoverageBlocks = ConvertToBlocks(AppliedBlocks(f.Path))
                /\ Cardinality(ReportedPaths(AppliedBlocks(f.Path))) = 1

-----------------------------------------------------------------------------
(* Claims about the quality stage *)

\* A call the specification counts as an assertion: t.Error, t.Errorf,
\* t.Fatal, t.Fail and their kin, any function of package assert, or a plain
\* helper whose name says so.
AssertionLike(c) ==
    /\ c # NoCall
    /\ \/ c.fun = "selector" /\ c.x = "t"
             /\ (Contains(c.name, "Error") \/ Contains(c.name, "Fail") \/ Contains(c.name, "Fatal"))
       \/ c.fun = "selector" /\ c.x = "assert"
       \/ c.fun = "ident"
             /\ (Contains(c.name, "Error") \/ Contains(c.name, "Fail") \/ Contains(c.name, "Fatal"))

\* The tags of the warnings recorded for function name of the file at path.
WarningTagsOf(name, path) ==
    {validationResult.Warnings[k][1] : k \in
        {j \in DOMAIN validationResult.Warnings :
            validationResult.Warnings[j][2] = name /\ validationResult.Warnings[j][3] = path}}

\* C27: once the quality stage has run, a test function of a file that
\* parses carries the warning "lacks proper assertions" exactly when its body
\* is non-empty and holds no assertion-like call, and a test function with an
\* empty body carries the warning "Empty test function" and no other.
C27_LacksAssertionsIffNoAssertionCall ==
    (Returned /\ Started("quality")) =>
        \A i \in DOMAIN generatedFiles :
            generatedFiles[i].disk = "ok" =>
                \A k \in DOMAIN generatedFiles[i].funcs :
                    LET f == generatedFiles[i].funcs[k]
                    IN  HasPrefixTest(f.Name) =>
                            /\ "lacks proper assertions" \in WarningTagsOf(f.Name, i)
                                  <=> /\ Len(f.Body) > 0
                                      /\ ~\E c \in Range(f.Body) : AssertionLike(c)
                            /\ Len(f.Body) = 0 =>
                                  WarningTagsOf(f.Name, i) = {"Empty test function"}

-----------------------------------------------------------------------------
(* Claims about test files that exist before the run *)

\* The test file paths at which the run found a file.
ExistingTestFiles ==
    {path \in DOMAIN tgProject.testFiles : tgProject.testFiles[path] \in {"exists", "unparseable"}}

\* The files of the result that are reported at the path.
ReportedAt(result, path) ==
    {i \in 1..Len(result.GeneratedFiles) : result.GeneratedFiles[i].Path = path}

RECURSIVE TestsOfFiles(_)
\* The tests of the files of a list, added up.
TestsOfFiles(generated) ==
    IF generated = <<>> THEN 0
    ELSE Head(generated).TestsGenerated + TestsOfFiles(Tail(generated))

\* C23: a run without Overwrite leaves every test file it found alone: it
\* never writes to the path, and the result it builds neither lists the file
\* nor counts it: the tests are those of the listed files, every listed file
\* counts as created and none as modified.
C23_ExistingTestFileUntouchedWithoutOverwrite ==
    ~tgOptions.Overwrite =>
        \A path \in ExistingTestFiles :
            /\ FileOp("WriteFile", PathJoin(tgOptions.ProjectPath, path)) \notin Range(tgWrites)
            /\ tgResult # NoResult =>
                  /\ ReportedAt(tgResult, path) = {}
                  /\ tgResult.TestsGenerated = TestsOfFiles(tgResult.GeneratedFiles)
                  /\ tgResult.FilesCreated = Len(tgResult.GeneratedFiles)
                  /\ tgResult.FilesModified = 0

\* A run without Overwrite has returned: it found pkg/calc_test.go, passed
\* it over, and generated and wrote the test file of the other package.
C23_Witness ==
    /\ RunReturned
    /\ ~tgOptions.Overwrite
    /\ ~tgOptions.DryRun
    /\ "pkg/calc_test.go" \in ExistingTestFiles
    /\ Len(tgReturn.result.GeneratedFiles) = 1
    /\ tgReturn.result.TestsGenerated > 0
    /\ \E i \in DOMAIN tgWrites : tgWrites[i].op = "WriteFile"

-----------------------------------------------------------------------------
(* Claims about the rendered tests of a file *)

RenderReturned == rpc = "returned"

\* The layout the style selector names.
LayoutOfStyle(style) ==
    CASE style = "testify" -> "fluent"
      [] style = "table" -> "table"
      [] OTHER -> "sequential"

\* The template of the plain style for the shape of the function.
TemplateOfShape(function) ==
    IF function.IsMethod THEN "method_test"
    ELSE IF function.HasErrorReturn THEN "error_test"
    ELSE "function_test"

\* C21: the test of every function of the file is rendered in the table
\* layout when table mode is on and the function has more than one
\* parameter, whatever the style; otherwise in the layout of the style:
\* sequential for standard, fluent for testify, table for table.  For the
\* standard style the template is chosen by the shape of the function.
C21_LayoutByTableModeThenStyle ==
    RenderReturned =>
        \A k \in DOMAIN renderFunctions :
            LET function == renderFunctions[k]
                test == renderLoop[k].testContent
                tabled == renderOptions.TableDriven /\ Len(function.Parameters) > 1
            IN  /\ test.err = Nil
                /\ test.layout = IF tabled THEN "table"
                                 ELSE LayoutOfStyle(renderOptions.TemplateStyle)
                /\ (~tabled /\ renderOptions.TemplateStyle = "standard") =>
                      selectTemplate(function, renderOptions.TemplateStyle,
                                     renderOptions.TableDriven) = TemplateOfShape(function)

\* The name a file refers to the package of an import path by.
PackageName(importPath) ==
    SubSeq(importPath, StrLastIndex(importPath, "/") + 1, Len(importPath))

\* The packages the functions of the model and the templates can refer to.
KnownPackages == {"testing", "assert", "mock", "context", "io"}

\* The packages a rendered function refers to: testing in its signature,
\* assert in the fluent layout, and the packages of the types and literals
\* in its body.
ReferencedBy(part) ==
    {"testing"} \cup (IF part.layout = "fluent" /\ Len(part.cases) > 0 THEN {"assert"} ELSE {})
    \cup {p \in KnownPackages : \E i \in DOMAIN part.texts : StrContains(part.texts[i], p \o ".")}

\* The packages the body of the file refers to.
ReferencedPackages == UNION {ReferencedBy(rendered.parts[i]) : i \in DOMAIN rendered.parts}

\* C22: the import block of the test file holds exactly the packages its
\* body refers to: none that is unused, none that is missing.
C22_ImportsAreExactlyThePackagesUsed ==
    RenderReturned =>
        {PackageName(rendered.imports[i]) : i \in DOMAIN rendered.imports} = ReferencedPackages

\* The literals of a generated case, in the order of the parameters.
LiteralsOf(function, generatedCase) ==
    [i \in 1..Len(function.Parameters) |-> generatedCase.InputStrings[function.Parameters[i].Name]]

RECURSIVE CasesIn(_)
\* The cases the rendered functions of a list hold, counted.
CasesIn(parts) == IF parts = <<>> THEN 0 ELSE Len(Head(parts).cases) + CasesIn(Tail(parts))

\* C24: a rendered test holds the cases of the test data generator: every
\* case generated for the function is in its test under its name and with
\* its literal for every parameter, and the unit test cases the result
\* reports are as many as the cases the rendered tests hold.
C24_RenderedCasesAreTheGeneratedCases ==
    RenderReturned =>
        /\ \A k \in DOMAIN renderFunctions :
              renderLoop[k].testContent.err = Nil =>
                  \A i \in DOMAIN renderLoop[k].testData :
                      \E j \in DOMAIN renderLoop[k].testContent.cases :
                          /\ renderLoop[k].testContent.cases[j].Name = renderLoop[k].testData[i].Name
                          /\ renderLoop[k].testContent.cases[j].Values =
                                 LiteralsOf(renderFunctions[k], renderLoop[k].testData[i])
        /\ Cardinality({i \in DOMAIN rendered.testCases : rendered.testCases[i].TestType = "unit"})
               = CasesIn(rendered.parts)

\* C30: the test and benchmark functions of one test file have names that
\* differ from one another.
C30_GeneratedFunctionNamesAreDistinct ==
    RenderReturned =>
        \A i, j \in DOMAIN rendered.parts :
            i # j => rendered.parts[i].name # rendered.parts[j].name

====
